---- MODULE Spec2Model ----
(* The API gateway of Practica_3 (api_gateway/app/index.js) with its three     *)
(* opossum circuit breakers, the order-placement handler POST /orders, the     *)
(* aggregation handler GET /users/:userId/details, the pass-through routes,    *)
(* and the users / orders / management services the gateway calls.             *)
(*                                                                             *)
(* Time is counted in ticks of one rolling-window bucket (1000 ms): the call   *)
(* timeout and the reset timeout (3000 ms each) are three ticks.               *)
EXTENDS Integers, Sequences, FiniteSets, TLC

\* ---------------------------------------------------------------- bounds
\* Gateway requests in one behaviour of the saga, aggregation and route specs.
MaxReq == 2
\* Gateway requests in one behaviour of the breaker timing spec.
MaxCalls == 3
\* Largest quantity a management row starts with.
MaxQty == 2
\* Timer waits (of up to 3000 ms each) in one behaviour of the saga,
\* aggregation and route specs.
MaxAwaits == 1
\* Requests to one backend service in one behaviour of the service specs.
MaxOps == 3
\* Largest size n of the n x n matrices multiplied.
MaxN == 2
\* Calculator calls in one behaviour, and the most numbers passed to Sum.
MaxCalc == 3

\* ---------------------------------------------------- program constants
\* circuitOptions.timeout = 3000 ms, in ticks of 1000 ms.
TimeoutTicks == 3
\* circuitOptions.resetTimeout = 3000 ms, in ticks of 1000 ms.
ResetTicks == 3
\* circuitOptions.errorThresholdPercentage.
ErrorThresholdPercentage == 50
\* circuitOptions sets neither rollingCountBuckets nor rollingCountTimeout:
\* the breaker keeps ten buckets of 1000 ms.
RollingCountBuckets == 10
\* circuitOptions sets no volumeThreshold: the breaker's minimum volume is 0.
VolumeThreshold == 0
\* The outcomes after a 'close' event that the history of a breaker tells
\* apart: none, one, or more.
MaxSinceClose == 2

\* The largest value of a C# int (32 bits, two's complement).
MaxInt == 2147483647

Downstreams == {"users", "orders", "management"}

\* --------------------------------------------------------- JS values
\* A JSON body is a record; a JSON array is the record [array |-> <<...>>].
\* Reading a property an object does not have yields undefined, which the
\* helpers below make explicit.
HasProp(obj, p) == p \in DOMAIN obj

IsArray(v) == HasProp(v, "array")

\* obj.error === msg
ErrorIs(obj, msg) == HasProp(obj, "error") /\ obj.error = msg

\* parseInt(management.quantity): NaN when the property is missing.
ParseIntQuantity(management) ==
    IF HasProp(management, "quantity")
    THEN [nan |-> FALSE, n |-> management.quantity]
    ELSE [nan |-> TRUE, n |-> 0]

\* Faulty variant of the comparison: >= instead of >.
JsGreater_OrEqual(q, k) == ~q.nan /\ q.n >= k

\* quantity > 0 and quantity == -1 in JS: every comparison with NaN is false.
JsGreater(q, k) == ~q.nan /\ q.n > k

JsLooseEq(q, k) == ~q.nan /\ q.n = k

\* ------------------------------------------------- the circuit breaker
\* One opossum CircuitBreaker: state, pendingClose, the rolling window of its
\* Status (newest bucket first), and the reset timer (-1: not armed).
\* sinceClose is history, not breaker state: the call outcomes recorded since
\* the last 'close' event (counted up to MaxSinceClose), -1 when the breaker
\* has not closed or has opened again.
EmptyBucket == [fires |-> 0, failures |-> 0, successes |-> 0]

NewCircuit ==
    [state |-> "CLOSED", pendingClose |-> FALSE,
     window |-> [i \in 1..RollingCountBuckets |-> EmptyBucket],
     resetTimer |-> -1, sinceClose |-> -1]

RECURSIVE SumWindow(_, _, _)
SumWindow(w, field, i) ==
    IF i > Len(w) THEN 0 ELSE w[i][field] + SumWindow(w, field, i + 1)

\* circuit.stats: the sums over the window's buckets.
Stats(c) ==
    [fires |-> SumWindow(c.window, "fires", 1),
     failures |-> SumWindow(c.window, "failures", 1),
     successes |-> SumWindow(c.window, "successes", 1)]

\* status.increment(property): counts in the newest bucket.
Increment(c, field) ==
    [c EXCEPT !.window[1][field] = @ + 1]

\* The fallback registered for each breaker.
Fallback(d) ==
    CASE d = "users" -> [error |-> "Users service temporarily unavailable"]
      [] d = "orders" -> [error |-> "Orders service temporarily unavailable"]
      [] d = "management" -> [error |-> "Management service temporarily unavailable"]

\* fire(): does the breaker let the call through?
Admits(c) == c.state = "CLOSED" \/ c.pendingClose

\* Faulty variant of fire(): an admitted call leaves pendingClose set, so a
\* HALF_OPEN breaker keeps admitting calls while its trial is outstanding.
CircuitFire_KeepPending(c) ==
    Increment(c, "fires")

\* fire(): the 'fire' event is counted, then the call is either rejected or
\* let through with pendingClose cleared.
CircuitFire(c) ==
    LET counted == Increment(c, "fires")
    IN  IF Admits(c) THEN [counted EXCEPT !.pendingClose = FALSE] ELSE counted

\* Faulty variant of open(): the reset timer is not armed again when the
\* breaker reopens from HALF_OPEN.
CircuitOpen_KeepTimer(c) ==
    IF c.state = "OPEN" THEN c
    ELSE [c EXCEPT !.state = "OPEN", !.pendingClose = FALSE,
                   !.resetTimer = IF c.state = "HALF_OPEN" THEN @ ELSE ResetTicks,
                   !.sinceClose = -1]

\* open(): a no-op when already OPEN; otherwise the 'open' event arms the
\* reset timer.
CircuitOpen(c) ==
    IF c.state = "OPEN" THEN c
    ELSE [c EXCEPT !.state = "OPEN", !.pendingClose = FALSE,
                   !.resetTimer = ResetTicks, !.sinceClose = -1]

\* close(): clears the reset timer.
CircuitClose(c) ==
    IF c.state = "CLOSED" THEN c
    ELSE [c EXCEPT !.state = "CLOSED", !.pendingClose = FALSE,
                   !.resetTimer = -1, !.sinceClose = 0]

\* A call outcome ('success' or 'failure') is counted in the newest bucket.
Outcome(c, field) ==
    [Increment(c, field) EXCEPT
        !.sinceClose = IF @ >= 0 /\ @ < MaxSinceClose THEN @ + 1 ELSE @]

\* Faulty variant of the 'success' event: every success closes the breaker,
\* whatever its state.
CircuitSuccess_AlwaysClose(c) ==
    CircuitClose(Outcome(c, "successes"))

\* The 'success' event: counted, and a success seen while HALF_OPEN closes
\* the breaker.
CircuitSuccess(c) ==
    LET counted == Outcome(c, "successes")
    IN  IF counted.state = "HALF_OPEN" THEN CircuitClose(counted) ELSE counted

\* Faulty variant of the error-rate test: the failure count is compared
\* with the percentage without being scaled to a percentage.
ErrorRateExceeds_Unscaled(stats) ==
    stats.failures > ErrorThresholdPercentage * stats.fires

\* errorRate > errorThresholdPercentage, errorRate = failures / fires * 100
\* (a division by zero fires is Infinity).
ErrorRateExceeds(stats) ==
    stats.failures * 100 > ErrorThresholdPercentage * stats.fires

\* fail(): count the failure, then open when the volume threshold is met
\* and the error rate exceeds the threshold, or when HALF_OPEN.
CircuitFailure(c) ==
    LET counted == Outcome(c, "failures")
        stats == Stats(counted)
    IN  IF stats.fires < VolumeThreshold /\ counted.state # "HALF_OPEN"
        THEN counted
        ELSE IF ErrorRateExceeds(stats) \/ counted.state = "HALF_OPEN"
             THEN CircuitOpen(counted)
             ELSE counted

\* Faulty variant of the reset timer's callback: HALF_OPEN with no call
\* pending, so no trial is ever admitted.
CircuitHalfOpen_NoTrial(c) ==
    [c EXCEPT !.state = "HALF_OPEN", !.pendingClose = FALSE, !.resetTimer = -1]

\* The reset timer's callback: HALF_OPEN, with one call pending.
CircuitHalfOpen(c) ==
    [c EXCEPT !.state = "HALF_OPEN", !.pendingClose = TRUE, !.resetTimer = -1]

\* The Status interval: drop the oldest bucket, start a new one.
NextBucket(w) ==
    <<EmptyBucket>> \o SubSeq(w, 1, Len(w) - 1)

\* ------------------------------------------------------- the services
\* The strings the requests carry, with their lengths (Joi's min / max).
StrLen(s) ==
    CASE s = "widget" -> 6
      [] s = "gadget" -> 6
      [] s = "ab" -> 2
      [] s = "bob" -> 3
      [] s = "bobby" -> 5
      [] s = "al" -> 2
      [] OTHER -> 8

\* Joi.string().min(3).max(30)
ValidString(s) == StrLen(s) >= 3 /\ StrLen(s) <= 30

\* Joi.string().email()
ValidEmail(s) == s = "bob@x.io"

\* A service's state: its table (rows in insertion order), the table's id
\* sequence, and its Redis keys.
NoKeys == [k \in {} |-> 0]

NewService(rows) == [db |-> rows, nextId |-> Len(rows) + 1, redis |-> NoKeys]

\* redisClient.get / setEx / del
RedisHas(redis, key) == key \in DOMAIN redis

RedisSet(redis, key, val) ==
    [k \in DOMAIN redis \cup {key} |-> IF k = key THEN val ELSE redis[k]]

\* Faulty variant of del: the key is left in the cache.
RedisDel_Keep(redis, key) ==
    redis

RedisDel(redis, key) ==
    [k \in DOMAIN redis \ {key} |-> redis[k]]

\* The rows of a table that satisfy a condition, in order.
RECURSIVE SelectRows(_, _, _)
SelectRows(rows, field, val) ==
    IF rows = <<>> THEN <<>>
    ELSE IF Head(rows)[field] = val
         THEN <<Head(rows)>> \o SelectRows(Tail(rows), field, val)
         ELSE SelectRows(Tail(rows), field, val)

\* What a handler answers: a status, a body and the service's next state.
Answer(status, body, s) == [status |-> status, body |-> body, svc |-> s]

\* ---- management service
\* ManagementModel.getByProduct: SELECT product, quantity ... rows[0]
MgmtGetByProductRow(db, product) ==
    LET found == SelectRows(db, "product", product)
    IN  IF found = <<>> THEN <<>>
        ELSE <<[product |-> found[1].product, quantity |-> found[1].quantity]>>

\* ManagementService.getManagementByProduct and router.get('/product'):
\* read through the cache key management:<product>; no record answers
\* 200 {"quantity": -1}.
MgmtGetProduct(s, product) ==
    LET key == "management:" \o product
    IN  IF RedisHas(s.redis, key)
        THEN Answer(200, s.redis[key], s)
        ELSE LET found == MgmtGetByProductRow(s.db, product)
             IN  IF found = <<>>
                 THEN Answer(200, [quantity |-> -1], s)
                 ELSE Answer(200, found[1],
                             [s EXCEPT !.redis = RedisSet(@, key, found[1])])

\* updateSchema of the management service: both fields optional.
MgmtUpdateValid(body) ==
    /\ DOMAIN body \subseteq {"product", "quantity"}
    /\ HasProp(body, "product") => ValidString(body.product)
    /\ HasProp(body, "quantity") => body.quantity >= 0

\* Faulty variant of the quantity update: an atomic "decrement by one" of
\* the stored value instead of writing the value the caller computed.
MgmtSetQuantity_Decrement(db, product, quantity) ==
    [i \in 1..Len(db) |->
        IF db[i].product = product
        THEN [db[i] EXCEPT !.quantity = db[i].quantity - 1]
        ELSE db[i]]

\* ManagementModel.decreaseQuantity: UPDATE ... SET quantity WHERE product.
MgmtSetQuantity(db, product, quantity) ==
    [i \in 1..Len(db) |->
        IF db[i].product = product THEN [db[i] EXCEPT !.quantity = quantity]
        ELSE db[i]]

\* router.put('/product') and ManagementService.decreaseQuantity.
MgmtPutProduct(s, body) ==
    IF ~MgmtUpdateValid(body)
    THEN Answer(400, [error |-> "validation"], s)
    ELSE IF ~HasProp(body, "product") \/ ~HasProp(body, "quantity")
              \/ SelectRows(s.db, "product", body.product) = <<>>
         THEN Answer(404, [error |-> "Management not found"], s)
         ELSE LET db2 == MgmtSetQuantity(s.db, body.product, body.quantity)
                  row == SelectRows(db2, "product", body.product)[1]
                  r1 == RedisDel(s.redis, "management:" \o body.product)
                  r2 == RedisDel(r1, "management:all")
                  r3 == RedisDel(r2, "management:" \o ToString(row.id))
              IN  Answer(200, row, [s EXCEPT !.db = db2, !.redis = r3])

\* createSchema of the management service: both fields required.
MgmtCreateValid(body) ==
    /\ DOMAIN body = {"product", "quantity"}
    /\ ValidString(body.product)
    /\ body.quantity >= 0

\* router.post('/') and ManagementService.createManagement: INSERT ...
\* RETURNING *; no cache key is deleted.
MgmtPost(s, body) ==
    IF ~MgmtCreateValid(body)
    THEN Answer(400, [error |-> "validation"], s)
    ELSE LET row == [id |-> s.nextId, product |-> body.product,
                     quantity |-> body.quantity]
         IN  Answer(201, row,
                    [s EXCEPT !.db = Append(@, row), !.nextId = @ + 1])

\* ManagementModel.update: UPDATE ... SET product, quantity WHERE id.
MgmtSetRow(db, id, body) ==
    [i \in 1..Len(db) |->
        IF db[i].id = id
        THEN [db[i] EXCEPT !.product = body.product,
                           !.quantity = body.quantity]
        ELSE db[i]]

\* router.put('/:id') and ManagementService.updateManagement: the keys
\* management:<id> and management:all are deleted.
MgmtPutById(s, id, body) ==
    IF ~MgmtUpdateValid(body)
    THEN Answer(400, [error |-> "validation"], s)
    ELSE IF SelectRows(s.db, "id", id) = <<>>
         THEN Answer(404, [error |-> "Management not found"], s)
         ELSE LET db2 == MgmtSetRow(s.db, id, body)
                  r1 == RedisDel(s.redis, "management:" \o ToString(id))
                  r2 == RedisDel(r1, "management:all")
              IN  Answer(200, SelectRows(db2, "id", id)[1],
                         [s EXCEPT !.db = db2, !.redis = r2])

\* router.get('/') and ManagementService.getAllManagement: read through
\* the cache key management:all; ManagementModel.getAll restarts the id
\* sequence when the table is empty.
MgmtGetAll(s) ==
    IF RedisHas(s.redis, "management:all")
    THEN Answer(200, s.redis["management:all"], s)
    ELSE IF s.db = <<>>
         THEN Answer(404, [error |-> "Managements not found"],
                     [s EXCEPT !.nextId = 1])
         ELSE Answer(200, [array |-> s.db],
                     [s EXCEPT !.redis =
                         RedisSet(@, "management:all", [array |-> s.db])])

\* ---- orders service
\* createSchema of the orders service.
OrderCreateValid(body) ==
    /\ DOMAIN body = {"user_id", "product"}
    /\ body.user_id > 0
    /\ ValidString(body.product)

\* router.post('/') and OrderService.createOrder.
OrdersPost(s, body) ==
    IF ~OrderCreateValid(body)
    THEN Answer(400, [error |-> "validation"], s)
    ELSE LET row == [id |-> s.nextId, user_id |-> body.user_id,
                     product |-> body.product]
         IN  Answer(201, row,
                    [s EXCEPT !.db = Append(@, row), !.nextId = @ + 1,
                              !.redis = RedisDel(@, "order:all")])

\* router.get('/') and OrderService.getOrderAll; OrderModel.getAll
\* restarts the id sequence when the table is empty.
OrdersGetAll(s) ==
    IF RedisHas(s.redis, "order:all")
    THEN Answer(200, s.redis["order:all"], s)
    ELSE IF s.db = <<>>
         THEN Answer(404, [error |-> "Orders not found"],
                     [s EXCEPT !.nextId = 1])
         ELSE Answer(200, [array |-> s.db],
                     [s EXCEPT !.redis =
                         RedisSet(@, "order:all", [array |-> s.db])])

\* updateSchema of the orders service: both fields optional.
OrderUpdateValid(body) ==
    /\ DOMAIN body \subseteq {"user_id", "product"}
    /\ HasProp(body, "product") => ValidString(body.product)

\* OrderModel.getById: SELECT user_id, product ... rows[0]
OrderGetByIdRow(db, id) ==
    LET found == SelectRows(db, "id", id)
    IN  IF found = <<>> THEN <<>>
        ELSE <<[user_id |-> found[1].user_id, product |-> found[1].product]>>

\* router.get('/:id') and OrderService.getOrderById: read through the cache
\* key order:<id>.
OrdersGetById(s, id) ==
    LET key == "order:" \o ToString(id)
    IN  IF RedisHas(s.redis, key)
        THEN Answer(200, s.redis[key], s)
        ELSE LET found == OrderGetByIdRow(s.db, id)
             IN  IF found = <<>>
                 THEN Answer(404, [error |-> "Order not found"], s)
                 ELSE Answer(200, found[1],
                             [s EXCEPT !.redis = RedisSet(@, key, found[1])])

\* OrderModel.update: UPDATE orders SET product WHERE id.
OrderSetProduct(db, id, product) ==
    [i \in 1..Len(db) |->
        IF db[i].id = id THEN [db[i] EXCEPT !.product = product] ELSE db[i]]

\* OrderModel.delete: DELETE FROM orders WHERE id.
RECURSIVE OrderRemove(_, _)
OrderRemove(db, id) ==
    IF db = <<>> THEN <<>>
    ELSE IF Head(db).id = id THEN OrderRemove(Tail(db), id)
         ELSE <<Head(db)>> \o OrderRemove(Tail(db), id)

\* router.put('/:id') and OrderService.updateOrder. Once the row is
\* updated the service evaluates `order:${order_id}`; no order_id is in
\* scope there, so it throws a ReferenceError before any key is deleted and
\* the route's catch answers 500.
OrdersPutById(s, id, body) ==
    IF ~OrderUpdateValid(body)
    THEN Answer(400, [error |-> "validation"], s)
    ELSE IF SelectRows(s.db, "id", id) = <<>>
         THEN Answer(404, [error |-> "Order not found"], s)
         ELSE Answer(500, [error |-> "order_id is not defined"],
                     [s EXCEPT !.db = OrderSetProduct(@, id, body.product)])

\* router.delete('/:id') and OrderService.deleteOrder: the same
\* ReferenceError once the row is deleted.
OrdersDeleteById(s, id) ==
    IF SelectRows(s.db, "id", id) = <<>>
    THEN Answer(404, [error |-> "Order not found"], s)
    ELSE Answer(500, [error |-> "order_id is not defined"],
                [s EXCEPT !.db = OrderRemove(@, id)])

\* ---- users service
\* createSchema of the users service.
UserCreateValid(body) ==
    /\ DOMAIN body = {"name", "email"}
    /\ ValidString(body.name)
    /\ ValidEmail(body.email)

\* router.get('/:id') and UserService.getUserById; UserModel.findById
\* selects email and name.
UsersGetById(s, id) ==
    LET key == "user:" \o ToString(id)
    IN  IF RedisHas(s.redis, key)
        THEN Answer(200, s.redis[key], s)
        ELSE LET found == SelectRows(s.db, "id", id)
             IN  IF found = <<>>
                 THEN Answer(404, [error |-> "User not found"], s)
                 ELSE LET user == [email |-> found[1].email,
                                   name |-> found[1].name]
                      IN  Answer(200, user,
                                 [s EXCEPT !.redis = RedisSet(@, key, user)])

\* router.get('/') and UserService.getAllUsers (cache key user:all);
\* UserModel.getAll restarts the id sequence when the table is empty.
UsersGetAll(s) ==
    IF RedisHas(s.redis, "user:all")
    THEN Answer(200, s.redis["user:all"], s)
    ELSE IF s.db = <<>>
         THEN Answer(404, [error |-> "Users not found"],
                     [s EXCEPT !.nextId = 1])
         ELSE Answer(200, [array |-> s.db],
                     [s EXCEPT !.redis =
                         RedisSet(@, "user:all", [array |-> s.db])])

\* router.post('/') and UserService.createUser (deletes key users:all).
UsersPost(s, body) ==
    IF ~UserCreateValid(body)
    THEN Answer(400, [error |-> "validation"], s)
    ELSE LET row == [id |-> s.nextId, name |-> body.name,
                     email |-> body.email]
         IN  Answer(201, row,
                    [s EXCEPT !.db = Append(@, row), !.nextId = @ + 1,
                              !.redis = RedisDel(@, "users:all")])

\* updateSchema of the users service: both fields optional.
UserUpdateValid(body) ==
    /\ DOMAIN body \subseteq {"name", "email"}
    /\ HasProp(body, "name") => ValidString(body.name)
    /\ HasProp(body, "email") => ValidEmail(body.email)

\* UserModel.update: UPDATE users SET email, name WHERE id.
UserSetRow(db, id, body) ==
    [i \in 1..Len(db) |->
        IF db[i].id = id
        THEN [db[i] EXCEPT !.email = body.email, !.name = body.name]
        ELSE db[i]]

\* UserModel.delete: DELETE FROM users WHERE id.
UserRemove(db, id) == OrderRemove(db, id)

\* router.put('/:id') and UserService.updateUser: the keys user:<id> and
\* users:all:* are deleted (DEL takes the name literally).
UsersPutById(s, id, body) ==
    IF ~UserUpdateValid(body)
    THEN Answer(400, [error |-> "validation"], s)
    ELSE IF SelectRows(s.db, "id", id) = <<>>
         THEN Answer(404, [error |-> "User not found"], s)
         ELSE LET db2 == UserSetRow(s.db, id, body)
                  r1 == RedisDel(s.redis, "user:" \o ToString(id))
                  r2 == RedisDel(r1, "users:all:*")
              IN  Answer(200, SelectRows(db2, "id", id)[1],
                         [s EXCEPT !.db = db2, !.redis = r2])

\* router.delete('/:id') and UserService.deleteUser: the same two keys;
\* 204 with no body.
UsersDeleteById(s, id) ==
    IF SelectRows(s.db, "id", id) = <<>>
    THEN Answer(404, [error |-> "User not found"], s)
    ELSE LET r1 == RedisDel(s.redis, "user:" \o ToString(id))
             r2 == RedisDel(r1, "users:all:*")
         IN  Answer(204, <<>>,
                    [s EXCEPT !.db = UserRemove(@, id), !.redis = r2])

\* The service behind a breaker handles one request.
Serve(s, rq) ==
    CASE rq.op = "mgmt.getProduct" -> MgmtGetProduct(s, rq.product)
      [] rq.op = "mgmt.putProduct" -> MgmtPutProduct(s, rq.body)
      [] rq.op = "orders.post" -> OrdersPost(s, rq.body)
      [] rq.op = "orders.getAll" -> OrdersGetAll(s)
      [] rq.op = "users.getById" -> UsersGetById(s, rq.id)
      [] rq.op = "users.getAll" -> UsersGetAll(s)
      [] rq.op = "users.post" -> UsersPost(s, rq.body)

\* --------------------------------------------------------- the gateway
VARIABLES
    circuit,   \* [Downstreams -> breaker]: usersCircuit, ordersCircuit, managementCircuit
    svc,       \* [Downstreams -> service state]
    req,       \* the gateway's requests: route, position in the handler, locals, response
    call,      \* call[r][d]: the call request r has fired on breaker d
    hits,      \* hits[d]: HTTP requests the gateway has sent to service d
    awaited    \* the timer waits so far (Await)

vars == <<circuit, svc, req, call, hits, awaited>>

NoValue == [none |-> TRUE]

NoCall ==
    [st |-> "none", rq |-> [op |-> "none"], timer |-> -1, sent |-> FALSE,
     trial |-> FALSE, status |-> 0, value |-> NoValue, fell |-> FALSE]

Idle ==
    [route |-> "none", pc |-> "idle", input |-> NoValue,
     quantity |-> [nan |-> TRUE, n |-> 0], order |-> NoValue, user |-> NoValue,
     status |-> 0, body |-> NoValue, fired |-> <<>>, fell |-> {}]

\* Faulty variant of the wrapped action: a 404 is thrown like every other
\* non-2xx status.
ActionResolves_Only2xx(status) ==
    status >= 200 /\ status < 300

\* axios validateStatus, and the catch that returns a 404's body: the action
\* resolves for a 2xx and for a 404, and throws for every other status.
ActionResolves(status) ==
    (status >= 200 /\ status < 300) \/ status = 404

\* Faulty variant of fire(): an admitted call is sent without a timeout.
FiredCall_NoTimeout(c, d, rq) ==
    IF Admits(c)
    THEN [st |-> "flight", rq |-> rq, timer |-> -1, sent |-> TRUE,
          trial |-> (c.state = "HALF_OPEN"), status |-> 0, value |-> NoValue,
          fell |-> FALSE]
    ELSE [st |-> "settled", rq |-> rq, timer |-> -1, sent |-> FALSE,
          trial |-> FALSE, status |-> 0, value |-> Fallback(d), fell |-> TRUE]

\* circuit.fire(url, options): a rejected call resolves at once with the
\* fallback; an admitted call starts its timeout and sends the request.
FiredCall(c, d, rq) ==
    IF Admits(c)
    THEN [st |-> "flight", rq |-> rq, timer |-> TimeoutTicks, sent |-> TRUE,
          trial |-> (c.state = "HALF_OPEN"), status |-> 0, value |-> NoValue,
          fell |-> FALSE]
    ELSE [st |-> "settled", rq |-> rq, timer |-> -1, sent |-> FALSE,
          trial |-> FALSE, status |-> 0, value |-> Fallback(d), fell |-> TRUE]

\* res.status(status).json(body)
Respond(rec, status, body) ==
    [rec EXCEPT !.pc = "done", !.status = status, !.body = body]

\* The handler of request r fires one call, named `name`, on breaker d;
\* `slots` are the request's calls once the awaited one has been taken.
Fire(r, d, name, rq, rec, slots) ==
    /\ circuit' = [circuit EXCEPT ![d] = CircuitFire(@)]
    /\ call' = [call EXCEPT ![r] =
          [slots EXCEPT ![d] = FiredCall(circuit[d], d, rq)]]
    /\ hits' = [hits EXCEPT ![d] = IF Admits(circuit[d]) THEN @ + 1 ELSE @]
    /\ req' = [req EXCEPT ![r] = [rec EXCEPT !.fired = Append(@, name)]]

\* Requests arrive in the order of their numbers.
Arrives(r) ==
    /\ req[r].pc = "idle"
    /\ r > 1 => req[r - 1].pc # "idle"

\* The awaited call of request r on breaker d has resolved.
Settled(r, d) == call[r][d].st = "settled"

\* The handler takes the resolved value of its call and goes on.
Taken(rec, r, d, name) ==
    [rec EXCEPT !.fell = IF call[r][d].fell THEN @ \cup {name} ELSE @]

Released(r, d) == [call[r] EXCEPT ![d] = NoCall]

\* ---- POST /orders
\* The request bodies: a well-formed one and one with a user_id the orders
\* schema rejects.
OrderBodies ==
    {[user_id |-> 1, product |-> "widget"],
     [user_id |-> 0, product |-> "widget"]}

\* app.post('/orders'), up to the first await: the inventory check.
PostOrders(r) ==
    /\ Arrives(r)
    /\ \E body \in OrderBodies :
          Fire(r, "management", "check",
               [op |-> "mgmt.getProduct", product |-> body.product],
               [req[r] EXCEPT !.route = "POST /orders", !.pc = "check",
                              !.input = body],
               call[r])
    /\ UNCHANGED <<svc, awaited>>

\* After the inventory check: parseInt, then the branch on quantity.
\* quantity > 0 fires the order creation; otherwise quantity == -1 reads
\* `order`, which is not in scope there (a ReferenceError, caught: 500), and
\* anything else answers 400.
PostOrdersChecked(r) ==
    /\ req[r].pc = "check"
    /\ Settled(r, "management")
    /\ LET quantity == ParseIntQuantity(call[r]["management"].value)
           rec == [Taken(req[r], r, "management", "check")
                      EXCEPT !.quantity = quantity]
       IN  IF JsGreater(quantity, 0)
           THEN Fire(r, "orders", "create",
                     [op |-> "orders.post", body |-> req[r].input],
                     [rec EXCEPT !.pc = "create"],
                     Released(r, "management"))
           ELSE /\ call' = [call EXCEPT ![r] = Released(r, "management")]
                /\ req' = [req EXCEPT ![r] =
                      IF JsLooseEq(quantity, -1)
                      THEN Respond(rec, 500, [error |-> "POST /orders error"])
                      ELSE Respond(rec, 400, [error |-> "Product quantity is 0"])]
                /\ UNCHANGED <<circuit, hits>>
    /\ UNCHANGED <<svc, awaited>>

\* Faulty variant: the decrement is fired without awaiting the creation.
PostOrdersCreated_Eager(r) ==
    /\ req[r].pc = "create"
    /\ call[r]["management"].st = "none"
    /\ circuit' = [circuit EXCEPT !["management"] = CircuitFire(@)]
    /\ call' = [call EXCEPT ![r]["management"] =
          FiredCall(circuit["management"], "management",
              [op |-> "mgmt.putProduct",
               body |-> [product |-> req[r].input.product,
                         quantity |-> req[r].quantity.n - 1]])]
    /\ hits' = [hits EXCEPT !["management"] =
          IF Admits(circuit["management"]) THEN @ + 1 ELSE @]
    /\ req' = [req EXCEPT ![r] =
          [@ EXCEPT !.pc = "decrement", !.fired = Append(@, "decrement")]]
    /\ UNCHANGED <<svc, awaited>>

\* After the order creation: the decrement is fired with quantity - 1.
PostOrdersCreated(r) ==
    /\ req[r].pc = "create"
    /\ Settled(r, "orders")
    /\ Fire(r, "management", "decrement",
            [op |-> "mgmt.putProduct",
             body |-> [product |-> req[r].input.product,
                       quantity |-> req[r].quantity.n - 1]],
            [Taken(req[r], r, "orders", "create")
                EXCEPT !.pc = "decrement", !.order = call[r]["orders"].value],
            Released(r, "orders"))
    /\ UNCHANGED <<svc, awaited>>

\* Faulty variant of the last step: a decrement that fell back is answered
\* with 500.
PostOrdersDecremented_Checks(r) ==
    /\ req[r].pc = "decrement"
    /\ Settled(r, "management")
    /\ req' = [req EXCEPT ![r] =
          IF call[r]["management"].fell
          THEN Respond(Taken(req[r], r, "management", "decrement"), 500,
                       [error |-> "POST /orders error"])
          ELSE Respond(Taken(req[r], r, "management", "decrement"), 201,
                       req[r].order)]
    /\ call' = [call EXCEPT ![r] = Released(r, "management")]
    /\ UNCHANGED <<circuit, svc, hits, awaited>>

\* After the decrement: res.status(201).json(order).
PostOrdersDecremented(r) ==
    /\ req[r].pc = "decrement"
    /\ Settled(r, "management")
    /\ req' = [req EXCEPT ![r] =
          Respond(Taken(req[r], r, "management", "decrement"), 201, req[r].order)]
    /\ call' = [call EXCEPT ![r] = Released(r, "management")]
    /\ UNCHANGED <<circuit, svc, hits, awaited>>

\* ---- GET /users/:userId/details
UserIds == {1, 2}

\* Faulty variant of the filter: every order is kept.
FilterByUser_All(orders, userId) ==
    orders

\* orders.filter(order => order.user_id == userId.toString())
RECURSIVE FilterByUser(_, _)
FilterByUser(orders, userId) ==
    IF orders = <<>> THEN <<>>
    ELSE IF Head(orders).user_id = userId
         THEN <<Head(orders)>> \o FilterByUser(Tail(orders), userId)
         ELSE FilterByUser(Tail(orders), userId)

\* app.get('/users/:userId/details'), up to the await: both calls are fired.
GetUserDetails(r) ==
    /\ Arrives(r)
    /\ \E userId \in UserIds :
          /\ circuit' = [circuit EXCEPT !["users"] = CircuitFire(@),
                                        !["orders"] = CircuitFire(@)]
          /\ call' = [call EXCEPT
                ![r]["users"] = FiredCall(circuit["users"], "users",
                    [op |-> "users.getById", id |-> userId]),
                ![r]["orders"] = FiredCall(circuit["orders"], "orders",
                    [op |-> "orders.getAll"])]
          /\ hits' = [hits EXCEPT
                !["users"] = IF Admits(circuit["users"]) THEN @ + 1 ELSE @,
                !["orders"] = IF Admits(circuit["orders"]) THEN @ + 1 ELSE @]
          /\ req' = [req EXCEPT ![r] =
                [req[r] EXCEPT !.route = "GET /users/:userId/details",
                               !.pc = "join", !.input = [userId |-> userId],
                               !.fired = <<"user", "orders">>]]
    /\ UNCHANGED <<svc, awaited>>

\* The order list resolved to something that has no filter method (the
\* fallback object or a not-found body): the .then callback throws, Promise.all
\* rejects at once and the catch answers 500; the user lookup is not awaited.
DetailsOrdersRejected(r) ==
    /\ req[r].pc = "join"
    /\ Settled(r, "orders")
    /\ ~IsArray(call[r]["orders"].value)
    /\ req' = [req EXCEPT ![r] =
          Respond(Taken(req[r], r, "orders", "orders"), 500,
                  [error |-> "Internal server error"])]
    /\ call' = [call EXCEPT ![r] = Released(r, "orders")]
    /\ UNCHANGED <<circuit, svc, hits, awaited>>

\* Both promises resolved: 404 for 'User not found', else {user, orders}.
DetailsJoined(r) ==
    /\ req[r].pc = "join"
    /\ Settled(r, "users")
    /\ Settled(r, "orders")
    /\ IsArray(call[r]["orders"].value)
    /\ LET user == call[r]["users"].value
           userOrders == FilterByUser(call[r]["orders"].value.array,
                                      req[r].input.userId)
           rec == [Taken(req[r], r, "users", "user") EXCEPT !.user = user]
       IN  req' = [req EXCEPT ![r] =
              IF ErrorIs(user, "User not found")
              THEN Respond(rec, 404, user)
              ELSE Respond(rec, 200,
                           [user |-> user, orders |-> [array |-> userOrders]])]
    /\ call' = [call EXCEPT ![r] = [d \in Downstreams |-> NoCall]]
    /\ UNCHANGED <<circuit, svc, hits, awaited>>

\* ---- the pass-through routes
\* Each route: its breaker, the service request it fires, the status of its
\* res.json, and the error message it answers 404 for ("" when the route
\* makes no such test).
UserBodies ==
    {[name |-> "bob", email |-> "bob@x.io"],
     [name |-> "al", email |-> "bob@x.io"]}

Routes ==
    {"GET /users/:userId", "POST /users", "GET /users", "GET /orders",
     "GET /management/product"}

RouteCircuit(route) ==
    CASE route \in {"GET /users/:userId", "POST /users", "GET /users"} -> "users"
      [] route = "GET /orders" -> "orders"
      [] route = "GET /management/product" -> "management"

RouteInputs(route) ==
    CASE route = "GET /users/:userId" ->
            {[op |-> "users.getById", id |-> id] : id \in UserIds}
      [] route = "POST /users" ->
            {[op |-> "users.post", body |-> b] : b \in UserBodies}
      [] route = "GET /users" -> {[op |-> "users.getAll"]}
      [] route = "GET /orders" -> {[op |-> "orders.getAll"]}
      [] route = "GET /management/product" ->
            {[op |-> "mgmt.getProduct", product |-> "widget"]}

RouteStatus(route) == IF route = "POST /users" THEN 201 ELSE 200

RouteNotFound(route) ==
    IF route = "GET /users/:userId" THEN "User not found" ELSE ""

\* A pass-through handler up to its await.
PassThrough(r, routes) ==
    /\ Arrives(r)
    /\ \E route \in routes : \E rq \in RouteInputs(route) :
          Fire(r, RouteCircuit(route), "call", rq,
               [req[r] EXCEPT !.route = route, !.pc = "pass", !.input = rq],
               call[r])
    /\ UNCHANGED <<svc, awaited>>

\* The status and body a pass-through handler answers with the value its
\* call resolved to. Every breaker has a fallback, so fire() never rejects
\* and the handlers' catch blocks (among them the {error: error} of
\* GET /management/product) do not run.
PassThroughAnswer(route, value) ==
    IF RouteNotFound(route) # "" /\ ErrorIs(value, RouteNotFound(route))
    THEN [status |-> 404, body |-> value]
    ELSE [status |-> RouteStatus(route), body |-> value]

PassThroughDone(r) ==
    /\ req[r].pc = "pass"
    /\ LET d == RouteCircuit(req[r].route)
           ans == PassThroughAnswer(req[r].route, call[r][d].value)
       IN  /\ Settled(r, d)
           /\ req' = [req EXCEPT ![r] =
                 Respond(Taken(req[r], r, d, "call"), ans.status, ans.body)]
           /\ call' = [call EXCEPT ![r] = Released(r, d)]
    /\ UNCHANGED <<circuit, svc, hits, awaited>>

\* ---- GET /health
\* The circuits the health endpoint reports.
HealthCircuits == {"users", "orders"}

\* app.get('/health'): answers at once with, for each reported circuit, its
\* status (the Status object holding the rolling window) and its stats.
Health(r) ==
    /\ Arrives(r)
    /\ req' = [req EXCEPT ![r] =
          Respond([req[r] EXCEPT !.route = "GET /health"], 200,
                  [status |-> "API Gateway is running",
                   circuits |-> [d \in HealthCircuits |->
                       [status |-> circuit[d].window,
                        stats |-> Stats(circuit[d])]]])]
    /\ UNCHANGED <<circuit, svc, call, hits, awaited>>

\* ---- the calls in flight
\* A call's status is the HTTP status of the response axios received for it
\* (0: no response).
InFlight(r, d) == call[r][d].st = "flight"

\* Faulty variant: a failed call resolves with the backend's body.
SettledCall_Leaks(c, d, ok, value) ==
    [c EXCEPT !.st = "settled", !.timer = -1, !.value = value, !.fell = ~ok]

\* The value an admitted call resolves to, once its action has ended.
SettledCall(c, d, ok, value) ==
    [c EXCEPT !.st = "settled", !.timer = -1,
              !.value = IF ok THEN value ELSE Fallback(d), !.fell = ~ok]

\* The service handles the request and its response arrives before the
\* timeout: a success for a 2xx or a 404, a failure for any other status.
Reply(r, d) ==
    /\ InFlight(r, d)
    /\ LET ans == Serve(svc[d], call[r][d].rq)
           ok == ActionResolves(ans.status)
       IN  /\ svc' = [svc EXCEPT ![d] = ans.svc]
           /\ circuit' = [circuit EXCEPT ![d] =
                 IF ok THEN CircuitSuccess(@) ELSE CircuitFailure(@)]
           /\ call' = [call EXCEPT ![r][d] =
                 [SettledCall(@, d, ok, ans.body) EXCEPT !.status = ans.status]]
    /\ UNCHANGED <<req, hits, awaited>>

\* Faulty variant: the three downstreams share one breaker state, so a failed
\* request is a failure of every breaker.
Unavailable_Shared(r, d) ==
    /\ InFlight(r, d)
    /\ circuit' = [e \in Downstreams |-> CircuitFailure(circuit[e])]
    /\ call' = [call EXCEPT ![r][d] = SettledCall(@, d, FALSE, NoValue)]
    /\ UNCHANGED <<svc, req, hits, awaited>>

\* The request fails without the service having handled it: the connection
\* is refused or reset, or the service answers 500.
Unavailable(r, d) ==
    /\ InFlight(r, d)
    /\ circuit' = [circuit EXCEPT ![d] = CircuitFailure(@)]
    /\ call' = [call EXCEPT ![r][d] = SettledCall(@, d, FALSE, NoValue)]
    /\ UNCHANGED <<svc, req, hits, awaited>>

\* The call's timeout fires: a failure; whatever the service answers later is
\* dropped. The service may or may not have handled the request.
Deadline(r, d) ==
    /\ InFlight(r, d)
    /\ call[r][d].timer = 0
    /\ circuit' = [circuit EXCEPT ![d] = CircuitFailure(@)]
    /\ call' = [call EXCEPT ![r][d] = SettledCall(@, d, FALSE, NoValue)]
    /\ \E handled \in BOOLEAN :
          svc' = IF handled
                 THEN [svc EXCEPT ![d] = Serve(svc[d], call[r][d].rq).svc]
                 ELSE svc
    /\ UNCHANGED <<req, hits, awaited>>

\* ---- timers
DeadlineDue == \E r \in DOMAIN req : \E d \in Downstreams :
    InFlight(r, d) /\ call[r][d].timer = 0

\* The reset timer of breaker d fires.
ResetTimer(d) ==
    /\ circuit[d].resetTimer = 0
    /\ ~DeadlineDue
    /\ circuit' = [circuit EXCEPT ![d] = CircuitHalfOpen(@)]
    /\ UNCHANGED <<svc, req, call, hits, awaited>>

\* A handler whose awaited promise has resolved runs before any timer does.
Resumable(r) ==
    \/ req[r].pc = "check" /\ Settled(r, "management")
    \/ req[r].pc = "create" /\ Settled(r, "orders")
    \/ req[r].pc = "decrement" /\ Settled(r, "management")
    \/ req[r].pc = "join" /\ Settled(r, "orders")
                          /\ (Settled(r, "users") \/ ~IsArray(call[r]["orders"].value))
    \/ req[r].pc = "pass" /\ Settled(r, RouteCircuit(req[r].route))

\* The timers that are armed: call timeouts and reset timers.
ArmedTimers ==
    {call[x[1]][x[2]].timer :
        x \in {y \in (DOMAIN req) \X Downstreams : InFlight(y[1], y[2])}}
        \cup {circuit[d].resetTimer :
                 d \in {x \in Downstreams : circuit[x].resetTimer >= 0}}

Elapse(t, k) == IF t > 0 THEN t - k ELSE t

RECURSIVE NextBuckets(_, _)
NextBuckets(w, k) == IF k = 0 THEN w ELSE NextBuckets(NextBucket(w), k - 1)

\* k * 1000 ms pass while a timer is armed and none is due: every window
\* starts k new buckets, every armed timer runs down by k.
Advance(k) ==
    /\ ArmedTimers # {}
    /\ \A t \in ArmedTimers : t >= k
    /\ \A r \in DOMAIN req : ~Resumable(r)
    /\ circuit' = [d \in Downstreams |->
          [circuit[d] EXCEPT !.window = NextBuckets(@, k),
                             !.resetTimer = Elapse(@, k)]]
    /\ call' = [r \in DOMAIN req |-> [d \in Downstreams |->
          [call[r][d] EXCEPT !.timer = Elapse(@, k)]]]
    /\ UNCHANGED <<svc, req, hits>>

\* One bucket interval passes.
Tick == Advance(1) /\ UNCHANGED awaited

\* Time passes until the earliest armed timer is due.
Await ==
    /\ awaited < MaxAwaits
    /\ awaited' = awaited + 1
    /\ \E k \in ArmedTimers : k > 0 /\ Advance(k)

\* ---- the management service on its own
\* The products and the record ids of the requests.
Products == {"widget", "gadget"}

MgmtIds == {1, 2}

MgmtBodies == [product : Products, quantity : 0..MaxQty]

\* Service d answers request r; requests are handled one at a time, each to
\* its end.
Handled(r, d, route, input, ans) ==
    /\ Arrives(r)
    /\ req' = [req EXCEPT ![r] =
          Respond([req[r] EXCEPT !.route = route, !.input = input],
                  ans.status, ans.body)]
    /\ svc' = [svc EXCEPT ![d] = ans.svc]
    /\ UNCHANGED <<circuit, call, hits, awaited>>

\* POST /management
ManagementPost(r) ==
    \E body \in MgmtBodies :
        Handled(r, "management", "POST /", body, MgmtPost(svc["management"], body))

\* PUT /management/:id
ManagementPutById(r) ==
    \E id \in MgmtIds : \E body \in MgmtBodies :
        Handled(r, "management", "PUT /:id", [id |-> id, body |-> body],
                MgmtPutById(svc["management"], id, body))

\* PUT /management/product
ManagementPutProduct(r) ==
    \E body \in MgmtBodies :
        Handled(r, "management", "PUT /product", body,
                MgmtPutProduct(svc["management"], body))

\* GET /management/product?product=
ManagementGetProduct(r) ==
    \E product \in Products :
        Handled(r, "management", "GET /product", [product |-> product],
                MgmtGetProduct(svc["management"], product))

\* GET /management
ManagementGetAll(r) ==
    Handled(r, "management", "GET /", NoValue, MgmtGetAll(svc["management"]))

\* DELETE /management/:id: the handler's try block is empty, so it returns
\* without sending a response and the request stays open.
ManagementDelete(r) ==
    /\ Arrives(r)
    /\ \E id \in MgmtIds :
          req' = [req EXCEPT ![r] =
              [@ EXCEPT !.route = "DELETE /:id", !.input = [id |-> id],
                        !.pc = "returned"]]
    /\ UNCHANGED <<circuit, svc, call, hits, awaited>>

\* ---- the orders service on its own
OrderIds == {1, 2}

\* Update bodies: a product the schema accepts and one it rejects.
OrderUpdates == {[product |-> "gadget"], [product |-> "ab"]}

\* POST /orders
OrdersCreate(r) ==
    \E body \in OrderBodies :
        Handled(r, "orders", "POST /", body, OrdersPost(svc["orders"], body))

\* GET /orders
OrdersList(r) ==
    Handled(r, "orders", "GET /", NoValue, OrdersGetAll(svc["orders"]))

\* GET /orders/:id
OrdersRead(r) ==
    \E id \in OrderIds :
        Handled(r, "orders", "GET /:id", [id |-> id],
                OrdersGetById(svc["orders"], id))

\* PUT /orders/:id
OrdersUpdate(r) ==
    \E id \in OrderIds : \E body \in OrderUpdates :
        Handled(r, "orders", "PUT /:id", [id |-> id, body |-> body],
                OrdersPutById(svc["orders"], id, body))

\* DELETE /orders/:id
OrdersDelete(r) ==
    \E id \in OrderIds :
        Handled(r, "orders", "DELETE /:id", [id |-> id],
                OrdersDeleteById(svc["orders"], id))

\* ---- the users service on its own
UserIdsStored == {1, 2}

\* Update bodies: a name the schema accepts and one it rejects.
UserUpdates ==
    {[name |-> "bobby", email |-> "bob@x.io"],
     [name |-> "al", email |-> "bob@x.io"]}

\* POST /users
UsersCreate(r) ==
    \E body \in UserBodies :
        Handled(r, "users", "POST /", body, UsersPost(svc["users"], body))

\* GET /users
UsersList(r) ==
    Handled(r, "users", "GET /", NoValue, UsersGetAll(svc["users"]))

\* PUT /users/:id
UsersUpdate(r) ==
    \E id \in UserIdsStored : \E body \in UserUpdates :
        Handled(r, "users", "PUT /:id", [id |-> id, body |-> body],
                UsersPutById(svc["users"], id, body))

\* DELETE /users/:id
UsersDelete(r) ==
    \E id \in UserIdsStored :
        Handled(r, "users", "DELETE /:id", [id |-> id],
                UsersDeleteById(svc["users"], id))

\* ---- ManagementService methods, one step per awaited query
\* A method invocation: its argument, the value a query left in a local
\* constant, and the value it returns.
NoOp ==
    [op |-> "none", pc |-> "idle", arg |-> NoValue, local |-> NoValue,
     result |-> NoValue]

Returns(rec, value) == [rec EXCEPT !.pc = "done", !.result = value]

\* getManagementByProduct, first await: redisClient.get; a hit returns the
\* cached record.
GetByProductCacheGet(i) ==
    /\ Arrives(i)
    /\ \E product \in Products :
          LET key == "management:" \o product
              rec == [NoOp EXCEPT !.op = "getManagementByProduct",
                                  !.arg = [product |-> product]]
              redis == svc["management"].redis
          IN  req' = [req EXCEPT ![i] =
                  IF RedisHas(redis, key) THEN Returns(rec, redis[key])
                  ELSE [rec EXCEPT !.pc = "select"]]
    /\ UNCHANGED <<circuit, svc, call, hits, awaited>>

\* getManagementByProduct, second await: ManagementModel.getByProduct; no
\* row returns undefined.
GetByProductSelect(i) ==
    /\ req[i].pc = "select"
    /\ LET found == MgmtGetByProductRow(svc["management"].db, req[i].arg.product)
       IN  req' = [req EXCEPT ![i] =
               IF found = <<>> THEN Returns(@, NoValue)
               ELSE [@ EXCEPT !.pc = "setEx", !.local = found[1]]]
    /\ UNCHANGED <<circuit, svc, call, hits, awaited>>

\* getManagementByProduct, third await: redisClient.setEx of the row read.
GetByProductSetEx(i) ==
    /\ req[i].pc = "setEx"
    /\ svc' = [svc EXCEPT !["management"].redis =
          RedisSet(@, "management:" \o req[i].arg.product, req[i].local)]
    /\ req' = [req EXCEPT ![i] = Returns(@, req[i].local)]
    /\ UNCHANGED <<circuit, call, hits, awaited>>

\* decreaseQuantity, first await: ManagementModel.decreaseQuantity; no row
\* returns undefined.
DecreaseUpdate(i) ==
    /\ Arrives(i)
    /\ \E body \in MgmtBodies :
          LET rec == [NoOp EXCEPT !.op = "decreaseQuantity", !.arg = body]
              db == svc["management"].db
              db2 == MgmtSetQuantity(db, body.product, body.quantity)
              rows == SelectRows(db2, "product", body.product)
          IN  /\ svc' = [svc EXCEPT !["management"].db = db2]
              /\ req' = [req EXCEPT ![i] =
                    IF rows = <<>> THEN Returns(rec, NoValue)
                    ELSE [rec EXCEPT !.pc = "delProduct", !.local = rows[1]]]
    /\ UNCHANGED <<circuit, call, hits, awaited>>

\* decreaseQuantity, the three awaited redisClient.del in turn.
DecreaseDel(i) ==
    /\ req[i].pc \in {"delProduct", "delAll", "delId"}
    /\ LET key == CASE req[i].pc = "delProduct" ->
                         "management:" \o req[i].arg.product
                     [] req[i].pc = "delAll" -> "management:all"
                     [] OTHER -> "management:" \o ToString(req[i].local.id)
       IN  svc' = [svc EXCEPT !["management"].redis = RedisDel(@, key)]
    /\ req' = [req EXCEPT ![i] =
          CASE req[i].pc = "delProduct" -> [@ EXCEPT !.pc = "delAll"]
            [] req[i].pc = "delAll" -> [@ EXCEPT !.pc = "delId"]
            [] OTHER -> Returns(@, req[i].local)]
    /\ UNCHANGED <<circuit, call, hits, awaited>>

\* ---- OrderModel methods, one step per awaited query
OrderData == [user_id : {1, 2}, product : Products]

\* OrderModel.create: INSERT ... RETURNING *.
OrderModelCreate(i) ==
    /\ Arrives(i)
    /\ \E data \in OrderData :
          LET s == svc["orders"]
              row == [id |-> s.nextId, user_id |-> data.user_id,
                      product |-> data.product]
          IN  /\ svc' = [svc EXCEPT !["orders"] =
                    [s EXCEPT !.db = Append(@, row), !.nextId = @ + 1]]
              /\ req' = [req EXCEPT ![i] =
                    Returns([NoOp EXCEPT !.op = "create", !.arg = data], row)]
    /\ UNCHANGED <<circuit, call, hits, awaited>>

\* OrderModel.getAll, first await: SELECT * FROM orders; rows are returned
\* at once, no row goes on to the TRUNCATE.
OrderModelGetAllSelect(i) ==
    /\ Arrives(i)
    /\ LET rows == svc["orders"].db
           rec == [NoOp EXCEPT !.op = "getAll"]
       IN  req' = [req EXCEPT ![i] =
               IF Len(rows) = 0
               THEN [rec EXCEPT !.pc = "truncate", !.local = [array |-> rows]]
               ELSE Returns(rec, [array |-> rows])]
    /\ UNCHANGED <<circuit, svc, call, hits, awaited>>

\* OrderModel.getAll, second await: TRUNCATE TABLE orders RESTART IDENTITY.
OrderModelGetAllTruncate(i) ==
    /\ req[i].pc = "truncate"
    /\ svc' = [svc EXCEPT !["orders"] = [@ EXCEPT !.db = <<>>, !.nextId = 1]]
    /\ req' = [req EXCEPT ![i] = Returns(@, req[i].local)]
    /\ UNCHANGED <<circuit, call, hits, awaited>>

\* ---- MatrixMultiplicationOptimization
\* C# int arithmetic in an unchecked context wraps modulo 2^32.
MinInt == -MaxInt - 1

\* x + y on int
AddWrap(x, y) ==
    IF x >= 0 /\ y >= 0 /\ y > MaxInt - x
    THEN (x + MinInt) + (y + MinInt)
    ELSE IF x < 0 /\ y < 0 /\ y < MinInt - x
         THEN (x - MinInt) + (y - MinInt)
         ELSE x + y

\* The byte of weight 256^i of the two's complement form of x.
Byte(x, i) ==
    CASE i = 0 -> x % 256
      [] i = 1 -> (x \div 256) % 256
      [] i = 2 -> (x \div 65536) % 256
      [] OTHER -> (x \div 16777216) % 256

\* x * y on int: the low 32 bits of the product, from the products of the
\* bytes.
MulWrap(x, y) ==
    LET c0 == Byte(x, 0) * Byte(y, 0)
        c1 == Byte(x, 0) * Byte(y, 1) + Byte(x, 1) * Byte(y, 0)
        c2 == Byte(x, 0) * Byte(y, 2) + Byte(x, 1) * Byte(y, 1)
                  + Byte(x, 2) * Byte(y, 0)
        c3 == Byte(x, 0) * Byte(y, 3) + Byte(x, 1) * Byte(y, 2)
                  + Byte(x, 2) * Byte(y, 1) + Byte(x, 3) * Byte(y, 0)
        low == c0 + (c1 % 256) * 256
        high == ((low \div 65536) + (c1 \div 256) + c2 + (c3 % 256) * 256) % 65536
    IN  (IF high >= 32768 THEN high - 65536 ELSE high) * 65536 + (low % 65536)

\* An n x n int[,]: indices 0..n-1 in both dimensions.
Indices(n) == (0..(n - 1)) \X (0..(n - 1))

\* Faulty variant of the transposition: B is copied as it is.
Transposed_Copy(b, n) ==
    [x \in Indices(n) |-> b[x[1], x[2]]]

\* b_transposed[i, j] = b[j, i]
Transposed(b, n) ==
    [x \in Indices(n) |-> b[x[2], x[1]]]

\* The innermost loop of MultiplyMatrices_Naive from k on:
\* result[i, j] += a[i, k] * b[k, j].
RECURSIVE NaiveLoop(_, _, _, _, _, _, _)
NaiveLoop(a, b, n, i, j, k, acc) ==
    IF k >= n THEN acc
    ELSE NaiveLoop(a, b, n, i, j, k + 1,
                   AddWrap(acc, MulWrap(a[i, k], b[k, j])))

MultiplyMatrices_Naive(a, b, n) ==
    [x \in Indices(n) |-> NaiveLoop(a, b, n, x[1], x[2], 0, 0)]

\* The innermost loop over the transposed matrix from k on:
\* sum += a[i, k] * b_transposed[j, k].
RECURSIVE TransposedLoop(_, _, _, _, _, _, _)
TransposedLoop(a, bt, n, i, j, k, sum) ==
    IF k >= n THEN sum
    ELSE TransposedLoop(a, bt, n, i, j, k + 1,
                        AddWrap(sum, MulWrap(a[i, k], bt[j, k])))

MultiplyMatrices_Optimized(a, b, n) ==
    LET b_transposed == Transposed(b, n)
    IN  [x \in Indices(n) |->
            TransposedLoop(a, b_transposed, n, x[1], x[2], 0, 0)]

\* The scalar product of two cached rows from k on:
\* sum += row_a[k] * row_b[k].
RECURSIVE RowLoop(_, _, _, _, _)
RowLoop(row_a, row_b, n, k, sum) ==
    IF k >= n THEN sum
    ELSE RowLoop(row_a, row_b, n, k + 1,
                 AddWrap(sum, MulWrap(row_a[k], row_b[k])))

MultiplyMatrices_HighlyOptimized(a, b, n) ==
    LET b_t == Transposed(b, n)
    IN  [x \in Indices(n) |->
            LET row_a == [k \in 0..(n - 1) |-> a[x[1], k]]
                row_b == [k \in 0..(n - 1) |-> b_t[x[2], k]]
            IN  RowLoop(row_a, row_b, n, 0, 0)]

MultiplyMatrices_Final(a, b, n) ==
    LET b_t == Transposed(b, n)
    IN  [x \in Indices(n) |-> TransposedLoop(a, b_t, n, x[1], x[2], 0, 0)]

\* AreMatricesEqual: the same lengths and the same elements.
AreMatricesEqual(a, b) ==
    /\ DOMAIN a = DOMAIN b
    /\ \A x \in DOMAIN a : a[x] = b[x]

\* The entries of the matrices multiplied: small ones and ones whose
\* products and sums leave the range of int.
Entries == {-3, 2, MaxInt}

\* Main's test matrices.
TestA == [x \in Indices(3) |-> 3 * x[1] + x[2] + 1]

TestB == [x \in Indices(3) |-> 9 - (3 * x[1] + x[2])]

Methods == {"naive", "opt", "high", "final"}

\* One run: the input matrices and the result of each method called so far.
NewRun(a, b, n) ==
    [pc |-> "multiply", n |-> n, a |-> a, b |-> b,
     results |-> [m \in {} |-> 0], correct |-> [m \in {} |-> FALSE]]

\* var result_m = MultiplyMatrices_m(a, b)
Multiply(m) ==
    /\ req.pc = "multiply"
    /\ m \notin DOMAIN req.results
    /\ m # "naive" => "naive" \in DOMAIN req.results
    /\ LET result ==
              CASE m = "naive" -> MultiplyMatrices_Naive(req.a, req.b, req.n)
                [] m = "opt" -> MultiplyMatrices_Optimized(req.a, req.b, req.n)
                [] m = "high" ->
                       MultiplyMatrices_HighlyOptimized(req.a, req.b, req.n)
                [] OTHER -> MultiplyMatrices_Final(req.a, req.b, req.n)
       IN  req' = [req EXCEPT !.results =
               [k \in DOMAIN @ \cup {m} |-> IF k = m THEN result ELSE @[k]]]
    /\ UNCHANGED <<circuit, svc, call, hits, awaited>>

\* bool correct_m = AreMatricesEqual(result_naive, result_m), for every
\* method once all have been called.
CheckCorrectness ==
    /\ req.pc = "multiply"
    /\ DOMAIN req.results = Methods
    /\ req' = [req EXCEPT !.pc = "checked",
                          !.correct = [m \in Methods \ {"naive"} |->
                              AreMatricesEqual(req.results["naive"],
                                               req.results[m])]]
    /\ UNCHANGED <<circuit, svc, call, hits, awaited>>

\* ---- Calculator
\* The doubles passed to the calculator: small whole numbers, so that every
\* sum, difference and product is exact; a quotient is taken only where it
\* is whole.
Numbers == {0, 1, 2}

CalculatorOperation == {"Add", "Subtract", "Multiply", "Divide"}

\* new Calculator(logger): _lastResult = 0 and an empty history; `returned`
\* is what the last call returned or threw.
NewCalculator ==
    [lastResult |-> 0, history |-> <<>>, calls |-> 0,
     called |-> "none", returned |-> [none |-> TRUE]]

\* OperationLogger.LogOperation: one entry is added (its time stamp is left
\* out).
LogOperation(history, message) == Append(history, message)

Returned(calc, name, value) ==
    [calc EXCEPT !.calls = @ + 1, !.called = name,
                 !.returned = [value |-> value]]

Thrown(calc, name, message) ==
    [calc EXCEPT !.calls = @ + 1, !.called = name,
                 !.returned = [error |-> message]]

\* Calculator.AddNumber
AddNumber(value) ==
    /\ req.calls < MaxCalc
    /\ LET result == req.lastResult + value
       IN  req' = Returned(
               [req EXCEPT !.lastResult = result,
                           !.history = LogOperation(@,
                               [text |-> "Added to number", result |-> result])],
               "AddNumber", result)
    /\ UNCHANGED <<circuit, svc, call, hits, awaited>>

\* Calculator.Divide's guard: Math.Abs(b) < double.Epsilon holds for zero
\* only.
IsZero(b) == b = 0

\* Calculator.PerformOperation with Add, Subtract, Multiply and Divide: the
\* private method logs; a division by zero logs an ERROR entry and throws
\* before LastResult is assigned.
PerformOperation(operation, a, b) ==
    /\ req.calls < MaxCalc
    /\ operation = "Divide" /\ ~IsZero(b) => a % b = 0
    /\ IF operation = "Divide" /\ IsZero(b)
       THEN req' = Thrown(
                [req EXCEPT !.history = LogOperation(@,
                    [text |-> "ERROR: Attempted to divide by zero", a |-> a])],
                "PerformOperation", "Cannot divide by zero")
       ELSE LET result == CASE operation = "Add" -> a + b
                            [] operation = "Subtract" -> a - b
                            [] operation = "Multiply" -> a * b
                            [] OTHER -> a \div b
            IN  req' = Returned(
                    [req EXCEPT !.lastResult = result,
                                !.history = LogOperation(@,
                                    [text |-> operation, a |-> a, b |-> b,
                                     result |-> result])],
                    "PerformOperation", result)
    /\ UNCHANGED <<circuit, svc, call, hits, awaited>>

\* foreach (double num in numbers) total += num
RECURSIVE Total(_)
Total(numbers) ==
    IF numbers = <<>> THEN 0 ELSE Head(numbers) + Total(Tail(numbers))

\* Calculator.Sum: with no numbers it logs and returns 0 at once, without
\* assigning LastResult.
Sum(numbers) ==
    /\ req.calls < MaxCalc
    /\ IF Len(numbers) = 0
       THEN req' = Returned(
                [req EXCEPT !.history = LogOperation(@,
                    [text |-> "Sum called with no arguments"])],
                "Sum", 0)
       ELSE LET total == Total(numbers)
            IN  req' = Returned(
                    [req EXCEPT !.lastResult = total,
                                !.history = LogOperation(@,
                                    [text |-> "Summed", count |-> Len(numbers),
                                     result |-> total])],
                    "Sum", total)
    /\ UNCHANGED <<circuit, svc, call, hits, awaited>>

\* The argument lists of Sum: up to MaxCalc numbers.
SumArguments ==
    UNION {[1..k -> Numbers] : k \in 0..MaxCalc}

\* ------------------------------------------------------ specifications
WidgetRows(q) == <<[id |-> 1, product |-> "widget", quantity |-> q]>>

SomeOrders ==
    <<[id |-> 1, user_id |-> 1, product |-> "widget"],
      [id |-> 2, user_id |-> 2, product |-> "widget"]>>

\* An orders table in which no order belongs to user 1.
OthersOrders == <<[id |-> 1, user_id |-> 2, product |-> "widget"]>>

SomeUsers == <<[id |-> 1, name |-> "bob", email |-> "bob@x.io"]>>

InitGateway(n) ==
    /\ circuit = [d \in Downstreams |-> NewCircuit]
    /\ req = [r \in 1..n |-> Idle]
    /\ call = [r \in 1..n |-> [d \in Downstreams |-> NoCall]]
    /\ hits = [d \in Downstreams |-> 0]
    /\ awaited = 0

Network ==
    \/ \E r \in DOMAIN req : \E d \in Downstreams : Reply(r, d)
    \/ \E r \in DOMAIN req : \E d \in Downstreams : Unavailable(r, d)
    \/ \E r \in DOMAIN req : \E d \in Downstreams : Deadline(r, d)
    \/ \E d \in Downstreams : ResetTimer(d)

\* POST /orders requests against a management table that has no widget row
\* or one with a quantity in 0..MaxQty.
InitSaga ==
    /\ InitGateway(MaxReq)
    /\ \E rows \in {<<>>} \cup {WidgetRows(q) : q \in 0..MaxQty} :
          svc = [d \in Downstreams |->
                    IF d = "management" THEN NewService(rows)
                    ELSE NewService(<<>>)]

NextSaga ==
    \/ \E r \in DOMAIN req : PostOrders(r)
    \/ \E r \in DOMAIN req : PostOrdersChecked(r)
    \/ \E r \in DOMAIN req : PostOrdersCreated(r)
    \/ \E r \in DOMAIN req : PostOrdersDecremented(r)
    \/ Network
    \/ Await

SpecSaga == InitSaga /\ [][NextSaga]_vars

\* GET /users/:userId/details requests; user 1 exists or not, the orders
\* table is empty, holds an order of user 1 and one of user 2, or holds only
\* an order of user 2.
InitDetails ==
    /\ InitGateway(MaxReq)
    /\ \E users \in {<<>>, SomeUsers} :
       \E orders \in {<<>>, SomeOrders, OthersOrders} :
          svc = [d \in Downstreams |->
                    CASE d = "users" -> NewService(users)
                      [] d = "orders" -> NewService(orders)
                      [] OTHER -> NewService(<<>>)]

NextDetails ==
    \/ \E r \in DOMAIN req : GetUserDetails(r)
    \/ \E r \in DOMAIN req : DetailsOrdersRejected(r)
    \/ \E r \in DOMAIN req : DetailsJoined(r)
    \/ Network
    \/ Await

SpecDetails == InitDetails /\ [][NextDetails]_vars

\* Pass-through requests on every modelled route, and GET /health.
InitRoutes ==
    /\ InitGateway(MaxReq)
    /\ \E users \in {<<>>, SomeUsers} : \E orders \in {<<>>, SomeOrders} :
          svc = [d \in Downstreams |->
                    CASE d = "users" -> NewService(users)
                      [] d = "orders" -> NewService(orders)
                      [] OTHER -> NewService(WidgetRows(1))]

NextRoutes ==
    \/ \E r \in DOMAIN req : PassThrough(r, Routes)
    \/ \E r \in DOMAIN req : PassThroughDone(r)
    \/ \E r \in DOMAIN req : Health(r)
    \/ Network
    \/ Await

SpecRoutes == InitRoutes /\ [][NextRoutes]_vars

\* One breaker over time: MaxCalls GET /users requests.
InitBreaker ==
    /\ InitGateway(MaxCalls)
    /\ svc = [d \in Downstreams |->
                 IF d = "users" THEN NewService(SomeUsers)
                 ELSE NewService(<<>>)]

NextBreaker ==
    \/ \E r \in DOMAIN req : PassThrough(r, {"GET /users"})
    \/ \E r \in DOMAIN req : PassThroughDone(r)
    \/ Network
    \/ Tick

SpecBreaker == InitBreaker /\ [][NextBreaker]_vars

\* The same with the event loop's guarantees: a handler whose awaited call
\* has resolved resumes, a timer that is due fires, and time goes on. A
\* backend need never answer, and no request need ever arrive.
SpecBreakerFair ==
    /\ SpecBreaker
    /\ WF_vars(\E r \in DOMAIN req : PassThroughDone(r))
    /\ WF_vars(\E r \in DOMAIN req : \E d \in Downstreams : Deadline(r, d))
    /\ WF_vars(\E d \in Downstreams : ResetTimer(d))
    /\ WF_vars(Tick)

\* MaxOps requests to the management service, one after the other, against
\* a table that is empty or holds one widget row.
InitMgmtSeq ==
    /\ InitGateway(MaxOps)
    /\ \E rows \in {<<>>, WidgetRows(1)} :
          svc = [d \in Downstreams |->
                    IF d = "management" THEN NewService(rows)
                    ELSE NewService(<<>>)]

NextMgmtSeq ==
    \/ \E r \in DOMAIN req : ManagementPost(r)
    \/ \E r \in DOMAIN req : ManagementPutById(r)
    \/ \E r \in DOMAIN req : ManagementPutProduct(r)
    \/ \E r \in DOMAIN req : ManagementGetProduct(r)
    \/ \E r \in DOMAIN req : ManagementGetAll(r)
    \/ \E r \in DOMAIN req : ManagementDelete(r)

SpecMgmtSeq == InitMgmtSeq /\ [][NextMgmtSeq]_vars

\* n method invocations to come; the gateway takes no part.
InitMethods(n) ==
    /\ circuit = [d \in Downstreams |-> NewCircuit]
    /\ req = [i \in 1..n |-> NoOp]
    /\ call = [i \in 1..n |-> [d \in Downstreams |-> NoCall]]
    /\ hits = [d \in Downstreams |-> 0]
    /\ awaited = 0

\* MaxOps concurrent invocations of getManagementByProduct and
\* decreaseQuantity against a table with one widget row.
InitMgmtRace ==
    /\ InitMethods(MaxOps)
    /\ \E q \in 1..MaxQty :
          svc = [d \in Downstreams |->
                    IF d = "management" THEN NewService(WidgetRows(q))
                    ELSE NewService(<<>>)]

NextMgmtRace ==
    \/ \E i \in DOMAIN req : GetByProductCacheGet(i)
    \/ \E i \in DOMAIN req : GetByProductSelect(i)
    \/ \E i \in DOMAIN req : GetByProductSetEx(i)
    \/ \E i \in DOMAIN req : DecreaseUpdate(i)
    \/ \E i \in DOMAIN req : DecreaseDel(i)

SpecMgmtRace == InitMgmtRace /\ [][NextMgmtRace]_vars

\* MaxOps concurrent invocations of OrderModel.create and OrderModel.getAll
\* against an orders table that is empty or holds two orders.
InitOrdersRace ==
    /\ InitMethods(MaxOps)
    /\ \E orders \in {<<>>, SomeOrders} :
          svc = [d \in Downstreams |->
                    IF d = "orders" THEN NewService(orders)
                    ELSE NewService(<<>>)]

NextOrdersRace ==
    \/ \E i \in DOMAIN req : OrderModelCreate(i)
    \/ \E i \in DOMAIN req : OrderModelGetAllSelect(i)
    \/ \E i \in DOMAIN req : OrderModelGetAllTruncate(i)

SpecOrdersRace == InitOrdersRace /\ [][NextOrdersRace]_vars

\* MaxOps requests to the orders service, one after the other, against a
\* table that is empty or holds two orders.
InitOrdersSeq ==
    /\ InitGateway(MaxOps)
    /\ \E orders \in {<<>>, SomeOrders} :
          svc = [d \in Downstreams |->
                    IF d = "orders" THEN NewService(orders)
                    ELSE NewService(<<>>)]

NextOrdersSeq ==
    \/ \E r \in DOMAIN req : OrdersCreate(r)
    \/ \E r \in DOMAIN req : OrdersList(r)
    \/ \E r \in DOMAIN req : OrdersRead(r)
    \/ \E r \in DOMAIN req : OrdersUpdate(r)
    \/ \E r \in DOMAIN req : OrdersDelete(r)

SpecOrdersSeq == InitOrdersSeq /\ [][NextOrdersSeq]_vars

\* MaxOps requests to the users service, one after the other, against a
\* table that is empty or holds one user.
InitUsersSeq ==
    /\ InitGateway(MaxOps)
    /\ \E users \in {<<>>, SomeUsers} :
          svc = [d \in Downstreams |->
                    IF d = "users" THEN NewService(users)
                    ELSE NewService(<<>>)]

NextUsersSeq ==
    \/ \E r \in DOMAIN req : UsersCreate(r)
    \/ \E r \in DOMAIN req : UsersList(r)
    \/ \E r \in DOMAIN req : UsersUpdate(r)
    \/ \E r \in DOMAIN req : UsersDelete(r)

SpecUsersSeq == InitUsersSeq /\ [][NextUsersSeq]_vars

\* The matrix program on Main's test matrices and on every pair of n x n
\* matrices over Entries, n up to MaxN.
InitMatrix ==
    /\ circuit = [d \in Downstreams |-> NewCircuit]
    /\ svc = [d \in Downstreams |-> NewService(<<>>)]
    /\ call = <<>>
    /\ hits = [d \in Downstreams |-> 0]
    /\ awaited = 0
    /\ \/ req = NewRun(TestA, TestB, 3)
       \/ \E n \in 1..MaxN :
             \E a \in [Indices(n) -> Entries] : \E b \in [Indices(n) -> Entries] :
                 req = NewRun(a, b, n)

NextMatrix ==
    \/ \E m \in Methods : Multiply(m)
    \/ CheckCorrectness

SpecMatrix == InitMatrix /\ [][NextMatrix]_vars

\* A calculator and up to MaxCalc calls on it, in any order.
InitCalculator ==
    /\ circuit = [d \in Downstreams |-> NewCircuit]
    /\ svc = [d \in Downstreams |-> NewService(<<>>)]
    /\ call = <<>>
    /\ hits = [d \in Downstreams |-> 0]
    /\ awaited = 0
    /\ req = NewCalculator

NextCalculator ==
    \/ \E value \in Numbers : AddNumber(value)
    \/ \E operation \in CalculatorOperation : \E a, b \in Numbers :
          PerformOperation(operation, a, b)
    \/ \E numbers \in SumArguments : Sum(numbers)

SpecCalculator == InitCalculator /\ [][NextCalculator]_vars

\* ---------------------------------------------------------- properties
Done(r) == req[r].pc = "done"

IsSaga(r) == req[r].route = "POST /orders"

IsDetails(r) == req[r].route = "GET /users/:userId/details"

IsPassThrough(r) == req[r].route \in Routes

Names(seq) == {seq[i] : i \in DOMAIN seq}

\* C1: a POST /orders whose order-creation call yields the fallback fires no
\* decrement call and answers with a 500-class status.
C1_CreateFailureAborts ==
    \A r \in DOMAIN req :
        IsSaga(r) /\ "create" \in req[r].fell
            => /\ "decrement" \notin Names(req[r].fired)
               /\ Done(r) => req[r].status >= 500

\* C2: a POST /orders whose inventory check returned quantity -1 fires the
\* order creation, fires no decrement, and answers 201 with the created order.
C2_UntrackedCreatesOrder ==
    \A r \in DOMAIN req :
        IsSaga(r) /\ Done(r) /\ JsLooseEq(req[r].quantity, -1)
            => /\ req[r].status = 201
               /\ "create" \in Names(req[r].fired)
               /\ "decrement" \notin Names(req[r].fired)

\* C3: a POST /orders whose inventory-check call yields the fallback fires
\* no order creation and answers with a 500-class status.
C3_CheckFailureAborts ==
    \A r \in DOMAIN req :
        IsSaga(r) /\ "check" \in req[r].fell
            => /\ "create" \notin Names(req[r].fired)
               /\ Done(r) => req[r].status >= 500

\* C4: a pass-through request whose breaker call yielded the fallback is
\* answered 500, never with the fallback payload under a 2xx status.
C4_FallbackIs500 ==
    \A r \in DOMAIN req :
        IsPassThrough(r) /\ Done(r) /\ "call" \in req[r].fell
            => req[r].status = 500

\* The widget row's stored quantity (-1 when there is no row).
StoredQuantity ==
    LET rows == SelectRows(svc["management"].db, "product", "widget")
    IN  IF rows = <<>> THEN -1 ELSE rows[1].quantity

\* Request r went through all three steps of POST /orders with no fallback,
\* having observed quantity q.
FullSaga(r, q) ==
    /\ IsSaga(r) /\ Done(r) /\ req[r].status = 201
    /\ req[r].fell = {}
    /\ ~req[r].quantity.nan /\ req[r].quantity.n = q

\* C5: the check-then-act of POST /orders is not serialized. Whenever the
\* only two requests so far are sagas that both observed the same quantity
\* q > 0 and both completed all three steps, two orders exist and the stored
\* quantity is q - 1: it was decremented once for two orders (oversell).
C5_Oversell ==
    \A q \in 1..(MaxQty + 1) :
        (/\ Cardinality(DOMAIN req) >= 2
         /\ FullSaga(1, q) /\ FullSaga(2, q)
         /\ \A r \in DOMAIN req \ {1, 2} : req[r].pc = "idle")
            => /\ Len(svc["orders"].db) = 2
               /\ StoredQuantity = q - 1

\* C5 witness: two sagas both observed quantity 1, both created an order,
\* and the stored quantity is 0.
C5_Witness ==
    /\ FullSaga(1, 1) /\ FullSaga(2, 1)
    /\ Len(svc["orders"].db) = 2
    /\ StoredQuantity = 0

\* The user lookup of an aggregation request resolved to 'User not found'.
UserNotFound(r) ==
    \/ ErrorIs(req[r].user, "User not found")
    \/ /\ call[r]["users"].st = "settled"
       /\ ErrorIs(call[r]["users"].value, "User not found")

\* C6: GET /users/:userId/details answers 404 whenever the user lookup
\* resolved to 'User not found', whatever the order-list call yielded.
C6_NotFoundIs404 ==
    \A r \in DOMAIN req :
        IsDetails(r) /\ Done(r) /\ UserNotFound(r) => req[r].status = 404

\* C7: GET /users/:userId/details never returns a partial result: a fallback
\* on either call gives 500, and a 200 carries a real user and a real list.
C7_NoPartialResult ==
    \A r \in DOMAIN req :
        IsDetails(r) /\ Done(r)
            => /\ req[r].fell # {} => req[r].status = 500
               /\ req[r].status = 200
                    => /\ ~HasProp(req[r].body.user, "error")
                       /\ IsArray(req[r].body.orders)

\* Request r carries a body its service's schema rejects.
Malformed(r) ==
    \/ req[r].route = "POST /users" /\ ~UserCreateValid(req[r].input.body)
    \/ req[r].route = "POST /orders" /\ ~OrderCreateValid(req[r].input)

\* C8: a request with a malformed body is answered 400 and is never counted
\* against a breaker: as long as every request so far is malformed, no
\* breaker has counted a failure and every breaker is CLOSED.
C8_MalformedNeverCounted ==
    (\A r \in DOMAIN req : req[r].pc # "idle" => Malformed(r))
        => /\ \A r \in DOMAIN req : Done(r) => req[r].status = 400
           /\ \A d \in Downstreams :
                 /\ Stats(circuit[d]).failures = 0
                 /\ circuit[d].state = "CLOSED"

\* A call outcome (success or failure) of breaker d is recorded in this step.
OutcomeRecorded(d) ==
    \/ Stats(circuit'[d]).failures > Stats(circuit[d]).failures
    \/ Stats(circuit'[d]).successes > Stats(circuit[d]).successes

FailureRecorded(d) ==
    Stats(circuit'[d]).failures > Stats(circuit[d]).failures

\* Request r fires a call on breaker d in this step.
FiredNow(r, d) == call[r][d].st = "none" /\ call'[r][d].st # "none"

\* The call fired in this step got the fallback without a request being sent.
ShortCircuited(r, d) ==
    /\ call'[r][d].st = "settled" /\ call'[r][d].fell /\ ~call'[r][d].sent
    /\ hits'[d] = hits[d]

Trials(d) == {r \in DOMAIN req : InFlight(r, d) /\ call[r][d].trial}

\* C10: the reset timer moves an OPEN breaker to HALF_OPEN; the next call is
\* sent as a trial and the breaker stays HALF_OPEN; while a trial is in
\* flight every further call gets the fallback with no request sent; and at
\* most one trial call is in flight at any time.
C10_SingleTrial ==
    /\ [](\A d \in Downstreams : Cardinality(Trials(d)) <= 1)
    /\ [][\A d \in Downstreams : \A r \in DOMAIN req :
             /\ (/\ circuit[d].state = "HALF_OPEN"
                 /\ circuit[d].pendingClose
                 /\ FiredNow(r, d))
                   => /\ call'[r][d].st = "flight" /\ call'[r][d].trial
                      /\ circuit'[d].state = "HALF_OPEN"
             /\ (Trials(d) # {} /\ FiredNow(r, d))
                   => ShortCircuited(r, d)
             /\ (circuit[d].state = "OPEN" /\ circuit'[d].state # "OPEN")
                   => circuit'[d].state = "HALF_OPEN"]_vars

\* C10 witness: a trial call is in flight on the HALF_OPEN users breaker and
\* another request's call has been short-circuited meanwhile.
C10_Witness ==
    /\ circuit["users"].state = "HALF_OPEN"
    /\ \E r1, r2 \in DOMAIN req :
          /\ r1 # r2
          /\ InFlight(r1, "users") /\ call[r1]["users"].trial
          /\ call[r2]["users"].st = "settled" /\ ~call[r2]["users"].sent

\* The call of request r on breaker d ends in this step.
Completes(r, d) == InFlight(r, d) /\ call'[r][d].st = "settled"

\* C11: a successful HALF_OPEN trial call closes the breaker, and a single
\* failure recorded right after the close (no other outcome in between)
\* leaves the breaker CLOSED.
C11_FailureAfterCloseStaysClosed ==
    [][\A d \in Downstreams :
          /\ \A r \in DOMAIN req :
                (/\ circuit[d].state = "HALF_OPEN"
                 /\ call[r][d].trial /\ Completes(r, d)
                 /\ ~call'[r][d].fell)
                    => circuit'[d].state = "CLOSED"
          /\ (/\ circuit[d].state = "CLOSED"
              /\ circuit[d].sinceClose = 0
              /\ FailureRecorded(d))
                 => circuit'[d].state = "CLOSED"]_vars

\* C12: a failed HALF_OPEN trial call moves the breaker to OPEN with the
\* reset timer armed anew for the full reset interval; while the breaker is
\* OPEN the timer only runs down with time, one bucket interval at a time,
\* every call fired gets the fallback with no request sent, and the breaker
\* leaves OPEN only when the timer has run out.
C12_TrialFailureRestartsClock ==
    [][\A d \in Downstreams :
          /\ \A r \in DOMAIN req :
                (/\ circuit[d].state = "HALF_OPEN"
                 /\ call[r][d].trial /\ Completes(r, d)
                 /\ call'[r][d].fell)
                    => /\ circuit'[d].state = "OPEN"
                       /\ circuit'[d].resetTimer = ResetTicks
          /\ (circuit[d].state = "OPEN" /\ circuit'[d].state = "OPEN")
                => /\ circuit'[d].resetTimer
                         \in {circuit[d].resetTimer, circuit[d].resetTimer - 1}
                   /\ circuit'[d].resetTimer < circuit[d].resetTimer
                         => circuit'[d].window = NextBucket(circuit[d].window)
          /\ \A r \in DOMAIN req :
                (circuit[d].state = "OPEN" /\ FiredNow(r, d))
                    => ShortCircuited(r, d)
          /\ (circuit[d].state = "OPEN" /\ circuit'[d].state # "OPEN")
                => circuit[d].resetTimer = 0 /\ hits' = hits]_vars

\* C12 witness: the trial call on the users breaker has just failed: the
\* breaker is OPEN again with the full reset interval ahead.
C12_Witness ==
    /\ circuit["users"].state = "OPEN"
    /\ circuit["users"].resetTimer = ResetTicks
    /\ \E r \in DOMAIN req :
          /\ call[r]["users"].st = "settled"
          /\ call[r]["users"].trial /\ call[r]["users"].sent
          /\ call[r]["users"].fell

\* C13: a call that ends with a 2xx or a 404 response resolves with the
\* response and counts as one success; a call that ends with any other
\* status or with no response (network error, timeout) yields the fallback
\* and counts as one failure; and a breaker leaves CLOSED only in a step
\* that records a failure, so 2xx and 404 responses alone never open it.
C13_OutcomeClassification ==
    [][\A d \in Downstreams :
          /\ \A r \in DOMAIN req :
                Completes(r, d) =>
                    LET status == call'[r][d].status
                        before == Stats(circuit[d])
                        after == Stats(circuit'[d])
                    IN  IF status \in 200..299 \/ status = 404
                        THEN /\ ~call'[r][d].fell
                             /\ after.successes = before.successes + 1
                             /\ after.failures = before.failures
                        ELSE /\ call'[r][d].fell
                             /\ call'[r][d].value = Fallback(d)
                             /\ after.failures = before.failures + 1
                             /\ after.successes = before.successes
          /\ (circuit[d].state = "CLOSED" /\ ~FailureRecorded(d))
                => circuit'[d].state = "CLOSED"]_vars

\* C13 witness: the users backend answered 404 and the call resolved with
\* that body; the users breaker has counted successes only and is CLOSED.
C13_Witness ==
    /\ circuit["users"].state = "CLOSED"
    /\ Stats(circuit["users"]).failures = 0
    /\ Stats(circuit["users"]).successes >= 1
    /\ \E r \in DOMAIN req :
          /\ call[r]["users"].st = "settled"
          /\ call[r]["users"].status = 404
          /\ ~call[r]["users"].fell
          /\ HasProp(call[r]["users"].value, "error")

\* The phase changes a breaker may make.
PhaseTransitions ==
    {<<"CLOSED", "OPEN">>, <<"OPEN", "HALF_OPEN">>,
     <<"HALF_OPEN", "CLOSED">>, <<"HALF_OPEN", "OPEN">>}

\* C14: every breaker starts CLOSED, and every step either leaves its phase
\* as it is or changes it along CLOSED -> OPEN, OPEN -> HALF_OPEN,
\* HALF_OPEN -> CLOSED or HALF_OPEN -> OPEN.
C14_PhaseTransitionsOnly ==
    /\ \A d \in Downstreams : circuit[d].state = "CLOSED"
    /\ [][\A d \in Downstreams :
             \/ circuit'[d].state = circuit[d].state
             \/ <<circuit[d].state, circuit'[d].state>> \in PhaseTransitions]_vars

\* C14 witness: the users breaker has gone round the cycle: it opened, went
\* HALF_OPEN, was closed by a success, and calls were counted since.
C14_Witness ==
    /\ circuit["users"].state = "CLOSED"
    /\ circuit["users"].sinceClose >= 1
    /\ Stats(circuit["users"]).failures >= 1

\* What an inventory read for the widget answers in the current state of
\* the management service (database and cache).
InventoryRead == MgmtGetProduct(svc["management"], "widget").body

\* Request r is the only POST /orders there has been (requests arrive in the
\* order of their numbers), every call of it got its backend's response, and
\* it observed quantity q.
LoneSaga(r, q) ==
    /\ r = 1 /\ IsSaga(r) /\ Done(r)
    /\ \A o \in DOMAIN req \ {r} : req[o].pc = "idle"
    /\ req[r].fell = {}
    /\ ~req[r].quantity.nan /\ req[r].quantity.n = q

\* C15: a POST /orders with a well-formed body for a product whose quantity
\* is q > 0, with no other saga and every call answered by its backend,
\* responds 201 with the order the orders backend created, and an inventory
\* read of the product afterwards returns q - 1.
C15_HappyPath ==
    \A r \in DOMAIN req : \A q \in 1..(MaxQty + 1) :
        LoneSaga(r, q) /\ OrderCreateValid(req[r].input)
            => /\ req[r].status = 201
               /\ req[r].body = svc["orders"].db[Len(svc["orders"].db)]
               /\ req[r].body.user_id = req[r].input.user_id
               /\ req[r].body.product = req[r].input.product
               /\ HasProp(InventoryRead, "quantity")
               /\ InventoryRead.quantity = q - 1

\* C15 witness: the lone saga observed quantity 2 and answered 201; the
\* inventory read now returns 1.
C15_Witness ==
    /\ LoneSaga(1, 2) /\ req[1].status = 201
    /\ InventoryRead.quantity = 1

\* C16: a POST /orders that observed quantity 0 responds 400 with
\* {error: 'Product quantity is 0'} and fires neither the order creation
\* nor the decrement.
C16_ZeroQuantity ==
    \A r \in DOMAIN req :
        IsSaga(r) /\ JsLooseEq(req[r].quantity, 0) /\ req[r].pc # "check"
            => /\ Done(r)
               /\ req[r].status = 400
               /\ req[r].body = [error |-> "Product quantity is 0"]
               /\ req[r].fired = <<"check">>

\* C16 witness: a saga observed quantity 0 (the management backend answered
\* the check) and has responded.
C16_Witness ==
    \E r \in DOMAIN req :
        /\ IsSaga(r) /\ Done(r)
        /\ JsLooseEq(req[r].quantity, 0)
        /\ "check" \notin req[r].fell
        /\ req[r].status = 400

\* C17: a POST /orders whose order was created and whose decrement call
\* yielded the fallback responds 201 with the created order; the order is in
\* the orders table; and the saga fired the decrement once and nothing after
\* it (no retry, no compensating call).
C17_DecrementFailureKeepsOrder ==
    \A r \in DOMAIN req :
        (/\ IsSaga(r) /\ Done(r)
         /\ "decrement" \in req[r].fell /\ "create" \notin req[r].fell
         /\ OrderCreateValid(req[r].input))
            => /\ req[r].status = 201
               /\ req[r].body = req[r].order
               /\ \E i \in DOMAIN svc["orders"].db :
                     svc["orders"].db[i] = req[r].order
               /\ req[r].fired = <<"check", "create", "decrement">>
               /\ \A d \in Downstreams : call[r][d].st = "none"

\* C17 witness: the decrement of a saga fell back after its order was
\* created; the saga answered 201 and the stock is what it was.
C17_Witness ==
    \E r \in DOMAIN req :
        /\ r = 1 /\ req[2].pc = "idle"
        /\ IsSaga(r) /\ Done(r) /\ req[r].fell = {"decrement"}
        /\ req[r].status = 201
        /\ Len(svc["orders"].db) = 1
        /\ StoredQuantity = req[r].quantity.n

\* The error bodies the backends send with a 404.
NotFoundBodies ==
    {[error |-> "User not found"], [error |-> "Users not found"],
     [error |-> "Orders not found"], [error |-> "Management not found"]}

\* C18: a pass-through request whose call resolved with a backend's
\* not-found body (the backend answered 404) is answered 404 with that body.
C18_NotFoundIs404 ==
    \A r \in DOMAIN req :
        (/\ IsPassThrough(r) /\ Done(r)
         /\ "call" \notin req[r].fell
         /\ req[r].body \in NotFoundBodies)
            => req[r].status = 404

\* C19: GET /users/:userId/details answering 200 after both calls got their
\* backend's response carries the user's record and exactly the orders of
\* the orders table whose user_id is the requested id, each once and in
\* table order: none of another user, none of this user left out, and the
\* empty list when the user has none.
C19_ExactlyOwnOrders ==
    \A r \in DOMAIN req :
        (IsDetails(r) /\ Done(r) /\ req[r].status = 200 /\ req[r].fell = {})
            => LET userId == req[r].input.userId
                   table == svc["orders"].db
                   own == {i \in DOMAIN table : table[i].user_id = userId}
                   got == req[r].body.orders.array
               IN  /\ \E i \in DOMAIN svc["users"].db :
                         /\ svc["users"].db[i].id = userId
                         /\ req[r].body.user.name = svc["users"].db[i].name
                         /\ req[r].body.user.email = svc["users"].db[i].email
                   /\ Len(got) = Cardinality(own)
                   /\ \A k \in DOMAIN got : got[k].user_id = userId
                   /\ \A i \in own : \E k \in DOMAIN got : got[k] = table[i]
                   /\ \A k, l \in DOMAIN got :
                         k < l => got[k].id < got[l].id

\* C19 witness: request 1 got exactly the one order of user 1 out of a table
\* that also holds an order of user 2.
C19_Witness ==
    /\ IsDetails(1) /\ Done(1) /\ req[1].status = 200 /\ req[1].fell = {}
    /\ svc["orders"].db = SomeOrders
    /\ req[1].body.orders.array = <<SomeOrders[1]>>

\* The empty case of C19 is reachable too: user 1 exists, the table holds
\* only an order of user 2, and the response carries the empty list.
C19_EmptyReachable ==
    /\ IsDetails(1) /\ Done(1) /\ req[1].status = 200 /\ req[1].fell = {}
    /\ svc["orders"].db = OthersOrders
    /\ req[1].body.orders.array = <<>>

\* C20: GET /users/:userId/details has responded only when neither of its
\* two calls is still in flight.
C20_JoinsOnBoth ==
    \A r \in DOMAIN req :
        IsDetails(r) /\ Done(r)
            => ~InFlight(r, "users") /\ ~InFlight(r, "orders")

\* The fixed error messages a gateway response may carry: the handlers' own
\* literals, the fallbacks' messages and the backends' not-found messages.
GenericMessages ==
    {"Internal server error", "POST /orders error", "Product quantity is 0"}
        \cup {Fallback(d).error : d \in Downstreams}
        \cup {b.error : b \in NotFoundBodies}

SagaSteps == <<"check", "create", "decrement">>

\* C22: within one POST /orders the calls are fired in the order check,
\* create, decrement, each at most once; the creation is fired only in a
\* step in which the check call has resolved, the decrement only in a step
\* in which the creation call has resolved; and the saga never has two
\* calls outstanding.
C22_StrictlySequential ==
    /\ [](\A r \in DOMAIN req :
             IsSaga(r) =>
                /\ Len(req[r].fired) <= 3
                /\ req[r].fired = SubSeq(SagaSteps, 1, Len(req[r].fired))
                /\ Cardinality({d \in Downstreams : call[r][d].st # "none"}) <= 1)
    /\ [][\A r \in DOMAIN req :
             (IsSaga(r) /\ req'[r].fired # req[r].fired)
                => /\ Len(req'[r].fired) = Len(req[r].fired) + 1
                   /\ Len(req'[r].fired) = 2
                         => /\ Settled(r, "management")
                            /\ call[r]["management"].rq.op = "mgmt.getProduct"
                            /\ call'[r]["orders"].rq.op = "orders.post"
                   /\ Len(req'[r].fired) = 3
                         => /\ Settled(r, "orders")
                            /\ call[r]["orders"].rq.op = "orders.post"
                            /\ call'[r]["management"].rq.op = "mgmt.putProduct"]_vars

\* C22 witness: a saga's decrement call is in flight; its check and its
\* creation have been taken and the order exists.
C22_Witness ==
    \E r \in DOMAIN req :
        /\ IsSaga(r) /\ req[r].pc = "decrement"
        /\ InFlight(r, "management")
        /\ call[r]["management"].rq.op = "mgmt.putProduct"
        /\ call[r]["orders"].st = "none"
        /\ req[r].fell = {}
        /\ Len(svc["orders"].db) >= 1

\* C23: a call in flight has at most the timeout left, and the time left
\* runs down with every bucket interval that passes, so no call is in flight
\* for more than 3000 ms; a call that ends without a response is a failure
\* of its breaker and resolves with the fallback; a resolved call's value
\* is never replaced by a later response; a response, once sent, stays as it
\* is; and every request that has fired its call is eventually answered,
\* even if the backend never answers.
C23_TimeoutBoundsEveryCall ==
    /\ [](\A r \in DOMAIN req : \A d \in Downstreams :
             InFlight(r, d) => call[r][d].timer \in 0..TimeoutTicks)
    /\ [][\A r \in DOMAIN req : \A d \in Downstreams :
             /\ (InFlight(r, d)
                 /\ circuit'[d].window = NextBucket(circuit[d].window))
                   => /\ call[r][d].timer > 0
                      /\ InFlight(r, d)'
                      /\ call'[r][d].timer = call[r][d].timer - 1
             /\ (Completes(r, d) /\ call'[r][d].status = 0)
                   => /\ call'[r][d].fell
                      /\ call'[r][d].value = Fallback(d)
                      /\ FailureRecorded(d)
             /\ (Settled(r, d) /\ call'[r][d] # call[r][d])
                   => call'[r][d] = NoCall
             /\ Done(r) => req'[r] = req[r]]_vars
    /\ \A r \in 1..MaxCalls : (req[r].pc = "pass") ~> Done(r)

\* C23 witness: a GET /users call was abandoned at its deadline; the users
\* service handled the request all the same (it cached the list), and the
\* call resolved with the fallback.
C23_Witness ==
    \E r \in DOMAIN req :
        /\ req[r].pc = "pass"
        /\ Settled(r, "users")
        /\ call[r]["users"].sent /\ call[r]["users"].fell
        /\ call[r]["users"].status = 0
        /\ hits["users"] = 1
        /\ RedisHas(svc["users"].redis, "user:all")

\* C24: the response of GET /health has one entry, with status and stats,
\* for each of the users, orders and management breakers.
C24_HealthCoversEveryBreaker ==
    \A r \in DOMAIN req :
        Done(r) /\ req[r].route = "GET /health"
            => /\ DOMAIN req[r].body.circuits = Downstreams
               /\ \A d \in Downstreams :
                     {"status", "stats"} \subseteq DOMAIN req[r].body.circuits[d]

\* C25: breaker state is per downstream. A step in which a call of one
\* downstream completes or is fired leaves the other two breakers as they
\* were (phase, window counters, reset timer); a breaker leaves CLOSED only
\* in a step that records a failure of its own; and during POST /orders the
\* users breaker, which the saga never calls, stays CLOSED with no outcome
\* in its window.
C25_BreakerPerDownstream ==
    /\ [](/\ circuit["users"].state = "CLOSED"
          /\ Stats(circuit["users"]).fires = 0
          /\ Stats(circuit["users"]).failures = 0
          /\ Stats(circuit["users"]).successes = 0)
    /\ [][\A d \in Downstreams :
            /\ \A r \in DOMAIN req :
                  Completes(r, d) \/ FiredNow(r, d)
                      => \A e \in Downstreams \ {d} : circuit'[e] = circuit[e]
            /\ OutcomeRecorded(d)
                  => \A e \in Downstreams \ {d} : circuit'[e] = circuit[e]
            /\ circuit[d].state = "CLOSED" /\ circuit'[d].state # "CLOSED"
                  => /\ FailureRecorded(d)
                     /\ \E r \in DOMAIN req : Completes(r, d) /\ call'[r][d].fell]_vars

\* The orders backend has failed during a POST /orders and opened the orders
\* breaker, while the management breaker, which recorded the successful
\* inventory check, and the users breaker are CLOSED without a failure.
C25_Witness ==
    /\ circuit["orders"].state = "OPEN"
    /\ Stats(circuit["orders"]).failures = 1
    /\ circuit["management"].state = "CLOSED"
    /\ Stats(circuit["management"]).successes = 1
    /\ Stats(circuit["management"]).failures = 0
    /\ circuit["users"] = NewCircuit
    /\ \E r \in DOMAIN req :
          IsSaga(r) /\ req[r].pc = "create" /\ Settled(r, "orders")
              /\ call[r]["orders"].fell

\* The decrement calls of POST /orders that have been fired and not yet
\* taken by their handler.
DecrementCalls ==
    {r \in DOMAIN req :
        /\ IsSaga(r) /\ req[r].pc = "decrement"
        /\ call[r]["management"].rq.op = "mgmt.putProduct"}

\* C28: every decrement call the saga issues carries a quantity >= 0, and
\* under every interleaving of POST /orders requests every stored (and every
\* cached) management quantity stays >= 0, so it never is the sentinel -1.
C28_QuantityNeverNegative ==
    /\ \A r \in DecrementCalls :
          call[r]["management"].rq.body.quantity >= 0
    /\ \A r \in DOMAIN req :
          IsSaga(r) /\ req[r].pc \in {"create", "decrement"}
              => ~req[r].quantity.nan /\ req[r].quantity.n > 0
    /\ \A i \in 1..Len(svc["management"].db) :
          svc["management"].db[i].quantity >= 0
    /\ \A k \in DOMAIN svc["management"].redis :
          HasProp(svc["management"].redis[k], "quantity")
              => svc["management"].redis[k].quantity >= 0

\* Two interleaved POST /orders requests both observed quantity 1 and both
\* issued a decrement to 0: one has been applied, the other is in flight,
\* and the stored quantity is 0.
C28_Witness ==
    /\ Cardinality(DecrementCalls) = 2
    /\ \A r \in DecrementCalls : call[r]["management"].rq.body.quantity = 0
    /\ \E r \in DecrementCalls :
          Settled(r, "management") /\ ~call[r]["management"].fell
    /\ \E r \in DecrementCalls : InFlight(r, "management")
    /\ StoredQuantity = 0

\* The management service with its cache emptied: its reads come from the
\* table.
Uncached(s) == [s EXCEPT !.redis = NoKeys]

\* A read by product now answers with the quantity stored for the product.
ByProductSeesStored ==
    \A product \in Products :
        MgmtGetProduct(svc["management"], product).body.quantity
            = MgmtGetProduct(Uncached(svc["management"]), product).body.quantity

\* A list now answers with the stored list.
ListSeesStored ==
    MgmtGetAll(svc["management"]).body
        = MgmtGetAll(Uncached(svc["management"])).body

\* C27: after any completed sequence of management writes, a read by
\* product answers with the quantity stored for that product and a list
\* answers with the stored list: the cache holds no stale management:<product>
\* or management:all entry.
C27_ReadsSeeLastWrite ==
    (\A r \in DOMAIN req : req[r].pc \in {"idle", "done"})
        => ByProductSeesStored /\ ListSeesStored

\* The method invocations that have started.
Started == {i \in DOMAIN req : req[i].pc # "idle"}

\* The invocations so far are one getManagementByProduct and one
\* decreaseQuantity for the same product, and both have returned.
ReadAndWriteDone(product) ==
    \E i, j \in Started :
        /\ Started = {i, j}
        /\ req[i].op = "getManagementByProduct" /\ req[j].op = "decreaseQuantity"
        /\ req[i].arg.product = product /\ req[j].arg.product = product
        /\ req[i].pc = "done" /\ req[j].pc = "done"

\* C26: under every interleaving of getManagementByProduct (cache miss) with
\* decreaseQuantity for the same product, once both have completed the
\* cache entry management:<product> is absent or equal to the stored record.
C26_NoStaleEntryAfterRace ==
    \A product \in Products :
        ReadAndWriteDone(product)
            => LET key == "management:" \o product
                   redis == svc["management"].redis
               IN  RedisHas(redis, key)
                       => <<redis[key]>>
                              = MgmtGetByProductRow(svc["management"].db, product)

\* The rows of the orders table.
StoredOrders == {svc["orders"].db[k] : k \in 1..Len(svc["orders"].db)}

\* C29: listing orders never removes an order. Under every interleaving of
\* OrderModel.getAll with OrderModel.create, an order whose create has
\* returned is stored once the getAll invocations have returned.
C29_ListingKeepsOrders ==
    (\A j \in Started : req[j].op = "getAll" => req[j].pc = "done")
        => \A i \in Started :
              req[i].op = "create" /\ req[i].pc = "done"
                  => req[i].result \in StoredOrders

\* Request r is answered in this step on the given route of the orders
\* service.
AnsweredNow(r, route) ==
    req[r].pc = "idle" /\ req'[r].pc = "done" /\ req'[r].route = route

\* C30: a PUT or DELETE /orders/:id of an existing order answers with a
\* success status and the affected record, and the cache keys order:<id> and
\* order:all are gone; and whenever such a request is answered with an
\* error status the orders table is as it was.
C30_WritesSucceedOrChangeNothing ==
    [][\A r \in DOMAIN req :
          AnsweredNow(r, "PUT /:id") \/ AnsweredNow(r, "DELETE /:id")
              => LET id == req'[r].input.id
                     was == SelectRows(svc["orders"].db, "id", id)
                     valid == AnsweredNow(r, "PUT /:id")
                                  => OrderUpdateValid(req'[r].input.body)
                 IN  /\ was # <<>> /\ valid
                        => /\ req'[r].status \in 200..299
                           /\ req'[r].body.id = id
                           /\ ~RedisHas(svc'["orders"].redis,
                                        "order:" \o ToString(id))
                           /\ ~RedisHas(svc'["orders"].redis, "order:all")
                     /\ req'[r].status >= 400
                        => svc'["orders"].db = svc["orders"].db]_vars

\* C31: after any completed createUser, updateUser or deleteUser, a list of
\* the users answers with the stored list: no cached list survives a write.
C31_UserListSeesLastWrite ==
    (\A r \in DOMAIN req : req[r].pc \in {"idle", "done"})
        => UsersGetAll(svc["users"]).body
               = UsersGetAll(Uncached(svc["users"])).body

\* While breaker d is not CLOSED, no call of d ends in a failure: the
\* downstream that tripped the breaker is healthy from then on.
HealthyWhileTripped(d) ==
    circuit[d].state # "CLOSED"
        => \A r \in DOMAIN req : ~(Completes(r, d) /\ call'[r][d].fell)

\* A request is still to arrive.
MoreToCome == \E r \in DOMAIN req : req[r].pc = "idle"

\* The breaker spec with a users downstream that fails only while its
\* breaker is CLOSED and is healthy from then on: no call fails, every call
\* in flight is answered, and requests keep arriving while any is left.
NextBreakerHealed == NextBreaker /\ HealthyWhileTripped("users")

SpecBreakerHealed ==
    /\ InitBreaker
    /\ [][NextBreakerHealed]_vars
    /\ WF_vars(\E r \in DOMAIN req : PassThrough(r, {"GET /users"}))
    /\ WF_vars(\E r \in DOMAIN req : PassThroughDone(r))
    /\ WF_vars(\E r \in DOMAIN req : Reply(r, "users"))
    /\ WF_vars(\E d \in Downstreams : ResetTimer(d))
    /\ WF_vars(Tick)

\* C32: breaker recovery is live. Against a downstream that is healthy once
\* its breaker has opened, with requests that keep arriving, an OPEN breaker
\* becomes HALF_OPEN, a HALF_OPEN breaker with a request still to come
\* becomes CLOSED, and no breaker stays OPEN forever; and every request
\* fired on a CLOSED breaker is sent to the backend.
C32_RecoveryIsLive ==
    /\ [][\A r \in DOMAIN req :
             FiredNow(r, "users") /\ circuit["users"].state = "CLOSED"
                 => /\ call'[r]["users"].sent
                    /\ hits'["users"] = hits["users"] + 1]_vars
    /\ (circuit["users"].state = "OPEN")
          ~> (circuit["users"].state = "HALF_OPEN")
    /\ (circuit["users"].state = "HALF_OPEN" /\ MoreToCome)
          ~> (circuit["users"].state = "CLOSED")
    /\ []<>(circuit["users"].state # "OPEN")

\* The users breaker opened, recovered through a successful trial, and a
\* request that arrived afterwards was served by the backend.
C32_Witness ==
    /\ circuit["users"].state = "CLOSED"
    /\ circuit["users"].sinceClose >= 1
    /\ Stats(circuit["users"]).failures >= 1
    /\ \E r, t \in DOMAIN req :
          /\ r < t
          /\ Done(r) /\ "call" \in req[r].fell
          /\ Done(t) /\ req[t].fell = {} /\ req[t].status = 200
    /\ hits["users"] = MaxCalls

\* C33: every route of the management router sends exactly one response
\* for every request it handles: once a handler has run, its request is
\* answered with a status, DELETE /management/:id included.
C33_EveryRequestAnswered ==
    \A r \in DOMAIN req :
        req[r].pc # "idle" => Done(r) /\ req[r].status \in 200..599

\* C34: for every pair of square int matrices of the same size, the
\* results of MultiplyMatrices_Optimized, MultiplyMatrices_HighlyOptimized
\* and MultiplyMatrices_Final equal, element by element, the result of
\* MultiplyMatrices_Naive, and the correctness check finds them equal.
C34_OptimizedEqualNaive ==
    /\ \A m \in DOMAIN req.results :
          /\ DOMAIN req.results[m] = Indices(req.n)
          /\ \A x \in Indices(req.n) :
                req.results[m][x] = req.results["naive"][x]
    /\ \A m \in DOMAIN req.correct : req.correct[m]

\* The check has run on a pair of 2 x 2 matrices, B not symmetric, whose
\* product left the range of int in some element.
C34_Witness ==
    /\ req.pc = "checked"
    /\ req.n = 2
    /\ req.b[0, 1] # req.b[1, 0]
    /\ req.a[0, 0] = MaxInt /\ req.b[0, 0] = MaxInt
    /\ req.results["final"][0, 0] = AddWrap(1, MulWrap(req.a[0, 1], req.b[1, 0]))
    /\ DOMAIN req.correct = Methods \ {"naive"}

\* C35: after every call of AddNumber, PerformOperation or Sum that returns
\* a value, LastResult is the returned value and exactly one history entry
\* was appended; a call that throws (a division by zero) appended exactly
\* one ERROR entry and left LastResult unchanged.
C35_LastResultIsReturned ==
    [][req'.calls = req.calls + 1
          => /\ Len(req'.history) = Len(req.history) + 1
             /\ HasProp(req'.returned, "value")
                   => req'.lastResult = req'.returned.value
             /\ HasProp(req'.returned, "error")
                   => /\ req'.lastResult = req.lastResult
                      /\ req'.history[Len(req'.history)].text
                             = "ERROR: Attempted to divide by zero"]_vars

====
